---- MODULE Spec2Model ----
(***************************************************************************)
(* A model of the in-mem key/value server: the typed store (src/src/       *)
(* store.rs), the ACL (src/common/src/acl.rs), the command handlers        *)
(* (src/src/commands/*.rs) and the connection worker (src/src/main.rs).    *)
(*                                                                         *)
(* The specifications share the variables:                                 *)
(*   Spec          the store driven through the data command handlers      *)
(*   SpecAcl       the ACL driven through acl_add / acl_remove             *)
(*   SpecWorker    worker_loop of src/src/main.rs, one request per step    *)
(*   SpecRegistry  the three-phase handlers LOGIN / KEYEXCHANGE /          *)
(*                 HEARTBEAT / SET behind the worker's ACL check           *)
(*   SpecFramer    one frame through Connection::write and Connection::read*)
(***************************************************************************)
EXTENDS Integers, Sequences, FiniteSets, TLC

VARIABLES values, acl, last, granted, sockets, connection, wire, framer, sched

vars == <<values, acl, last, granted, sockets, connection, wire, framer, sched>>

(***************************************************************************)
(* Bounds and domains                                                      *)
(***************************************************************************)
\* longest list the push handlers are allowed to build in the model
MaxLen == 2
\* width in bits of the signed integer that stands for i64
IntBits == 3

I64_MAX == (2 ^ (IntBits - 1)) - 1
I64_MIN == 0 - (2 ^ (IntBits - 1))

\* top-level keys; user names live in the same namespace
Keys == {"alice", "bob"}
Fields == {"f1", "f2"}
\* string payloads a client sends
Strs == {"a", "b"}
\* field values a client sends with HSET / HUPSERT
HVals == {"a"}
\* HINCRBY increments a client sends
Deltas == {I64_MAX}
\* where_* arguments of LMOVE
Wheres == {"left", "RIGHT", "up"}
\* raw passwords and recipient keys
Passwords == {"pw", "bad"}
Recipients == {"K1", "K2"}

None == [tag |-> "None"]
StringV(s) == [tag |-> "String", s |-> s]
HashMapV(m) == [tag |-> "HashMap", map |-> m]
ListV(l) == [tag |-> "List", list |-> l]
UserV(p, k) == [tag |-> "User", password |-> p, key |-> k]

\* Option<T>: <<>> is None, <<x>> is Some(x)
NoneOpt == << >>
Some(x) == <<x>>

\* Sha512 hex digest of a password: an injective image that is never the raw text
Sha512Hex(pw) == <<"sha512", pw>>

\* i64::to_string
ToStr(n) == ToString(n)

\* str::parse::<i64>: [ok, val]
ParseI64(s) ==
    IF \E n \in I64_MIN..I64_MAX : ToStr(n) = s
    THEN [ok |-> TRUE, val |-> CHOOSE n \in I64_MIN..I64_MAX : ToStr(n) = s]
    ELSE [ok |-> FALSE, val |-> 0]

\* i64::wrapping_add
WrappingAdd(x, n) ==
    ((x + n - I64_MIN) % (2 ^ IntBits)) + I64_MIN

\* i64::checked_add(..).unwrap_or(0)
CheckedAddOr0(x, n) ==
    IF x + n > I64_MAX \/ x + n < I64_MIN THEN 0 ELSE x + n

\* str::eq_ignore_ascii_case on the LMOVE arguments: the argument lowered
Lower(s) == IF s = "RIGHT" THEN "right" ELSE IF s = "LEFT" THEN "left" ELSE s

\* HashMap::insert on a field map
MapInsert(m, f, v) == [x \in (DOMAIN m) \cup {f} |-> IF x = f THEN v ELSE m[x]]
\* HashMap::remove on a field map
MapRemove(m, f) == [x \in (DOMAIN m) \ {f} |-> m[x]]

\* Vec::remove(i), 0-based
VecRemove(l, i) == SubSeq(l, 1, i) \o SubSeq(l, i + 2, Len(l))

Reverse(l) == [i \in 1..Len(l) |-> l[Len(l) + 1 - i]]

\* result of a store operation: the new map and what the call returned
Res(v, r) == [v |-> v, r |-> r]

(***************************************************************************)
(* Store: string sub-API (impl StoreAble for Store)                        *)
(* Every try_reserve is an input: TRUE when the allocator grants it.       *)
(***************************************************************************)
get(vals, key) ==
    IF vals[key].tag = "String" THEN Some(vals[key].s) ELSE NoneOpt

\* a set that, like entry().or_insert(), keeps what the key is bound to
set_or_insert(vals, key, value, ok1, ok2) ==
    IF ok1 \/ ok2
    THEN Res(IF vals[key] = None THEN [vals EXCEPT ![key] = StringV(value)] ELSE vals,
             <<"Ok">>)
    ELSE Res(vals, <<"Err", "TryReserve">>)

\* ok1: first try_reserve(1); ok2: the retry after shrink_to_fit
set(vals, key, value, ok1, ok2) ==
    IF ok1 \/ ok2
    THEN Res([vals EXCEPT ![key] = StringV(value)], <<"Ok">>)
    ELSE Res(vals, <<"Err", "TryReserve">>)

\* a remove that unbinds the key whatever it holds
remove_any(vals, key) ==
    IF vals[key].tag = "String"
    THEN Res([vals EXCEPT ![key] = None], <<"Some", vals[key].s>>)
    ELSE Res([vals EXCEPT ![key] = None], <<"None">>)

remove(vals, key) ==
    IF vals[key].tag = "String"
    THEN Res([vals EXCEPT ![key] = None], <<"Some", vals[key].s>>)
    ELSE Res(vals, <<"None">>)

(***************************************************************************)
(* Store: user sub-API (impl UserAble for Store)                           *)
(***************************************************************************)
user_add(vals, user, password, public_key) ==
    IF vals[user] # None
    THEN vals
    ELSE [vals EXCEPT ![user] = UserV(password, public_key)]

\* a user_remove that unbinds the name whatever it is bound to
user_remove_any(vals, user) ==
    IF vals[user] # None
    THEN Res([vals EXCEPT ![user] = None], <<"Bool", TRUE>>)
    ELSE Res(vals, <<"Bool", FALSE>>)

user_remove(vals, user) ==
    IF vals[user].tag = "User"
    THEN Res([vals EXCEPT ![user] = None], <<"Bool", TRUE>>)
    ELSE Res(vals, <<"Bool", FALSE>>)

user_is_valid(vals, user, password) ==
    vals[user].tag = "User" /\ vals[user].password = password

\* verify_key that accepts any key for a user that has one
verify_key_any(vals, user, key) ==
    vals[user].tag = "User" /\ vals[user].key # NoneOpt

verify_key(vals, user, key) ==
    /\ vals[user].tag = "User"
    /\ vals[user].key # NoneOpt
    /\ vals[user].key = Some(key)

user_has_key(vals, user) ==
    vals[user].tag = "User" /\ vals[user].key # NoneOpt

(***************************************************************************)
(* Store: hash sub-API (impl HashMapAble<String> for Store)                *)
(***************************************************************************)
\* self.values.entry(map_key).or_insert(Type::HashMap(HashMap::new()))
OrInsertHashMap(vals, map_key) ==
    IF vals[map_key] = None
    THEN [vals EXCEPT ![map_key] = HashMapV(<< >>)]
    ELSE vals

\* okOuter: self.values.try_reserve(1); okInner: map.try_reserve(1)
hadd(vals, map_key, key, value, okOuter, okInner) ==
    IF ~okOuter THEN Res(vals, <<"Err", "TryReserve">>)
    ELSE LET v1 == OrInsertHashMap(vals, map_key) IN
         IF v1[map_key].tag = "HashMap"
         THEN IF ~okInner THEN Res(v1, <<"Err", "TryReserve">>)
              ELSE Res([v1 EXCEPT ![map_key] =
                            HashMapV(MapInsert(v1[map_key].map, key, value))],
                       <<"Ok">>)
         ELSE Res(v1, <<"Ok">>)

\* an hremove that drops every field of the map
hremove_all(vals, map_key, key) ==
    IF vals[map_key].tag = "HashMap"
    THEN Res([vals EXCEPT ![map_key] = HashMapV(<< >>)], <<"Bool", TRUE>>)
    ELSE Res(vals, <<"Bool", FALSE>>)

hremove(vals, map_key, key) ==
    IF vals[map_key].tag = "HashMap"
    THEN Res([vals EXCEPT ![map_key] = HashMapV(MapRemove(vals[map_key].map, key))],
             <<"Bool", TRUE>>)
    ELSE Res(vals, <<"Bool", FALSE>>)

hcontains(vals, map_key, key) ==
    vals[map_key].tag = "HashMap" /\ key \in DOMAIN vals[map_key].map

hget(vals, map_key, key) ==
    IF hcontains(vals, map_key, key) THEN Some(vals[map_key].map[key]) ELSE NoneOpt

hlen(vals, map_key) ==
    IF vals[map_key].tag = "HashMap" THEN Cardinality(DOMAIN vals[map_key].map) ELSE 0

hupsert(vals, map_key, key, value, okOuter, okInner) ==
    IF ~okOuter THEN Res(vals, <<"Err", "TryReserve">>)
    ELSE LET v1 == OrInsertHashMap(vals, map_key) IN
         IF v1[map_key].tag = "HashMap"
         THEN IF ~okInner THEN Res(v1, <<"Err", "TryReserve">>)
              ELSE Res([v1 EXCEPT ![map_key] =
                            HashMapV(MapInsert(v1[map_key].map, key, value))],
                       <<"Ok">>)
         ELSE Res(v1, <<"Ok">>)

\* the else branch is unreachable!(): a panic
hincrby(vals, map_key, key, value, okOuter, okInner) ==
    IF ~okOuter THEN Res(vals, <<"Err", "TryReserve">>)
    ELSE LET v1 == OrInsertHashMap(vals, map_key) IN
         IF v1[map_key].tag = "HashMap"
         THEN IF ~okInner THEN Res(v1, <<"Err", "TryReserve">>)
              ELSE LET map == v1[map_key].map IN
                   IF key \in DOMAIN map
                   THEN LET p == ParseI64(map[key]) IN
                        IF ~p.ok THEN Res(v1, <<"Err", "ParseInt">>)
                        ELSE LET new_value == CheckedAddOr0(p.val, value) IN
                             Res([v1 EXCEPT ![map_key] =
                                      HashMapV(MapInsert(map, key, ToStr(new_value)))],
                                 <<"OkInt", new_value>>)
                   ELSE Res([v1 EXCEPT ![map_key] =
                                 HashMapV(MapInsert(map, key, ToStr(value)))],
                            <<"OkInt", value>>)
         ELSE Res(v1, <<"Panic">>)

(***************************************************************************)
(* Store: list sub-API (impl ListAble for Store)                           *)
(***************************************************************************)
llen(vals, list_key) ==
    IF vals[list_key].tag = "List" THEN Len(vals[list_key].list) ELSE 0

\* self.values.entry(list_key).or_insert(Type::List(Vec::new()))
OrInsertList(vals, list_key) ==
    IF vals[list_key] = None
    THEN [vals EXCEPT ![list_key] = ListV(<< >>)]
    ELSE vals

\* src_list.remove(0) and src_list.pop().unwrap() panic on an empty source,
\* after the source was taken out of the map
lmove(vals, src_key, dest_key, left_right, right_left) ==
    IF Lower(left_right) \notin {"right", "left"} THEN Res(vals, <<"None">>)
    ELSE IF Lower(right_left) \notin {"right", "left"} THEN Res(vals, <<"None">>)
    ELSE LET removed == vals[src_key]
             v1 == [vals EXCEPT ![src_key] = None]
         IN  IF removed.tag # "List" THEN Res(v1, <<"None">>)
             ELSE LET src_list == removed.list IN
                  IF v1[dest_key].tag = "List"
                  THEN IF src_list = << >> THEN Res(v1, <<"Panic">>)
                       ELSE LET dest_list == v1[dest_key].list
                                fromLeft == Lower(left_right) = "left"
                                elem == IF fromLeft THEN Head(src_list)
                                        ELSE src_list[Len(src_list)]
                                src2 == IF fromLeft THEN Tail(src_list)
                                        ELSE SubSeq(src_list, 1, Len(src_list) - 1)
                                dest2 == IF Lower(right_left) = "right"
                                         THEN Append(dest_list, elem)
                                         ELSE <<elem>> \o dest_list
                                v2 == [v1 EXCEPT ![dest_key] = ListV(dest2)]
                            IN  Res([v2 EXCEPT ![src_key] = ListV(src2)],
                                    <<"Some", dest2[Len(dest2)]>>)
                  ELSE Res([v1 EXCEPT ![src_key] = ListV(src_list)], <<"None">>)

\* an lpop that takes its elements from the head of the list
lpop_head(vals, list_key, count, okReserve) ==
    LET cnt == IF count = NoneOpt THEN 1 ELSE count[1] IN
    IF vals[list_key].tag = "List"
    THEN IF cnt > 0 /\ ~okReserve THEN Res(vals, <<"Err", "TryReserve">>)
         ELSE LET list == vals[list_key].list
                  n == IF cnt < Len(list) THEN cnt ELSE Len(list)
              IN  Res([vals EXCEPT ![list_key] = ListV(SubSeq(list, n + 1, Len(list)))],
                      <<"SomeList", SubSeq(list, 1, n)>>)
    ELSE Res(vals, <<"None">>)

\* count: Option<usize>; okReserve: popped.try_reserve_exact(count)
lpop(vals, list_key, count, okReserve) ==
    LET cnt == IF count = NoneOpt THEN 1 ELSE count[1] IN
    IF vals[list_key].tag = "List"
    THEN IF cnt > 0 /\ ~okReserve THEN Res(vals, <<"Err", "TryReserve">>)
         ELSE LET list == vals[list_key].list
                  n == IF cnt < Len(list) THEN cnt ELSE Len(list)
                  popped == Reverse(SubSeq(list, Len(list) - n + 1, Len(list)))
              IN  Res([vals EXCEPT ![list_key] = ListV(SubSeq(list, 1, Len(list) - n))],
                      <<"SomeList", popped>>)
    ELSE Res(vals, <<"None">>)

\* okOuter: self.values.try_reserve(1); okInner: list.try_reserve(values.len())
\* the scan of lpos: order holds the 0-based indices still to visit
RECURSIVE LposLoop(_, _, _, _, _, _, _, _, _)
LposLoop(list, order, value, rank, count, max_len, current_rank, comparisons, matches) ==
    IF order = << >> THEN matches
    ELSE IF max_len > 0 /\ comparisons >= max_len THEN matches
    ELSE LET index == Head(order)
             hit == list[index + 1] = value
             collect == hit /\ current_rank = rank
             pushed == IF collect THEN Append(matches, index) ELSE matches
         IN  IF collect /\ Len(pushed) = count THEN pushed
             ELSE LposLoop(list, Tail(order), value, rank, count, max_len,
                           IF hit
                           THEN current_rank + (IF rank > 0 THEN 1 ELSE 0 - 1)
                           ELSE current_rank,
                           comparisons + 1, pushed)

\* rank, count and max_len are Options; reserving room for no index cannot
\* fail
lpos(vals, list_key, value, rank, count, max_len, okReserve) ==
    IF vals[list_key].tag # "List" THEN Res(vals, <<"None">>)
    ELSE LET list == vals[list_key].list
             rk == IF rank = NoneOpt THEN 1 ELSE rank[1]
             ct == IF count = NoneOpt THEN 1 ELSE count[1]
             ml == IF max_len = NoneOpt THEN 0 ELSE max_len[1]
             fwd == [i \in 1..Len(list) |-> i - 1]
             matches == LposLoop(list, IF rk > 0 THEN fwd ELSE Reverse(fwd),
                                 value, rk, ct, ml,
                                 IF rk > 0 THEN 1 ELSE 0 - 1, 0, << >>)
         IN  IF Len(list) > 0 /\ ~okReserve THEN Res(vals, <<"Err", "TryReserve">>)
             ELSE IF matches = << >> THEN Res(vals, <<"None">>)
             ELSE Res(vals, <<"SomeList", matches>>)

\* an lpush that puts the values in place of the list
lpush_replace(vals, list_key, vs, okOuter, okInner) ==
    IF ~okOuter THEN Res(vals, <<"Err", "TryReserve">>)
    ELSE IF vals[list_key].tag \in {"None", "List"}
         THEN Res([vals EXCEPT ![list_key] = ListV(vs)], <<"Ok">>)
         ELSE Res(vals, <<"Ok">>)

lpush(vals, list_key, vs, okOuter, okInner) ==
    IF ~okOuter THEN Res(vals, <<"Err", "TryReserve">>)
    ELSE LET v1 == OrInsertList(vals, list_key) IN
         IF v1[list_key].tag = "List"
         THEN IF Len(vs) > 0 /\ ~okInner THEN Res(v1, <<"Err", "TryReserve">>)
              ELSE Res([v1 EXCEPT ![list_key] = ListV(v1[list_key].list \o vs)],
                       <<"Ok">>)
         ELSE Res(v1, <<"Ok">>)

lpushx(vals, list_key, vs, okInner) ==
    IF vals[list_key].tag = "List"
    THEN IF Len(vs) > 0 /\ ~okInner THEN Res(vals, <<"Err", "TryReserve">>)
         ELSE Res([vals EXCEPT ![list_key] = ListV(vals[list_key].list \o vs)],
                  <<"Ok">>)
    ELSE Res(vals, <<"Ok">>)

\* 0-based indices of the elements equal to value, ascending
RECURSIVE Indicies(_, _, _)
Indicies(list, value, i) ==
    IF i > Len(list) THEN << >>
    ELSE (IF list[i] = value THEN <<i - 1>> ELSE << >>) \o Indicies(list, value, i + 1)

\* the removal loop of lrem: list.remove(*i) for each recorded index, in the
\* given order, until removed == limit; Vec::remove panics when i >= len
RECURSIVE RemLoop(_, _, _, _)
RemLoop(list, idxs, removed, limit) ==
    IF idxs = << >> THEN [list |-> list, removed |-> removed, panic |-> FALSE]
    ELSE IF Head(idxs) >= Len(list)
         THEN [list |-> list, removed |-> removed, panic |-> TRUE]
         ELSE IF removed + 1 = limit
              THEN [list |-> VecRemove(list, Head(idxs)), removed |-> removed + 1,
                    panic |-> FALSE]
              ELSE RemLoop(VecRemove(list, Head(idxs)), Tail(idxs), removed + 1, limit)

\* okReserve: new_list.try_reserve_exact(list.len()).  The four loops are
\* `for i in lo..hi` with lo and hi the bounds, a negative one moved up by
\* the length: the loop breaks at the first i > len - 1 and indexes list[i]
\* otherwise, which panics when i is negative.
lrange(vals, list_key, start, stop, okReserve) ==
    IF vals[list_key].tag = "List"
    THEN LET list == vals[list_key].list
             len == Len(list)
             lo == IF start < 0 THEN start + len ELSE start
             hi == IF stop < 0 THEN stop + len ELSE stop
         IN  IF len > 0 /\ ~okReserve THEN Res(vals, <<"Err", "TryReserve">>)
             ELSE IF lo >= hi \/ lo > len - 1 THEN Res(vals, <<"OkList", << >> >>)
             ELSE IF lo < 0 THEN Res(vals, <<"Panic">>)
             ELSE Res(vals, <<"OkList", SubSeq(list, lo + 1, IF hi < len THEN hi ELSE len)>>)
    ELSE Res(vals, <<"OkList", << >> >>)

lrem(vals, list_key, count, value) ==
    IF vals[list_key].tag = "List"
    THEN LET list == vals[list_key].list
             indicies == Indicies(list, value, 1)
             limit == IF count < 0 THEN 0 - count ELSE count
             out == IF count < 0
                    THEN RemLoop(list, Reverse(indicies), 0, limit)
                    ELSE RemLoop(list, indicies, 0, limit)
         IN  Res([vals EXCEPT ![list_key] = ListV(out.list)],
                 IF out.panic THEN <<"Panic">> ELSE <<"Count", out.removed>>)
    ELSE Res(vals, <<"Count", 0>>)

\* list.len() - 1 underflows on an empty list: a panic
lset(vals, list_key, index, value) ==
    IF vals[list_key].tag = "List"
    THEN LET list == vals[list_key].list IN
         IF index < 0
         THEN LET i == index + Len(list) IN
              IF i < 0 THEN Res(vals, <<"Bool", FALSE>>)
              ELSE Res([vals EXCEPT ![list_key] = ListV([list EXCEPT ![i + 1] = value])],
                       <<"Bool", TRUE>>)
         ELSE IF Len(list) = 0 THEN Res(vals, <<"Panic">>)
              ELSE IF index > Len(list) - 1 THEN Res(vals, <<"Bool", FALSE>>)
              ELSE Res([vals EXCEPT ![list_key] = ListV([list EXCEPT ![index + 1] = value])],
                       <<"Bool", TRUE>>)
    ELSE Res(vals, <<"Bool", FALSE>>)

\* an ltrim whose stop bound is exclusive
ltrim_exclusive(vals, list_key, start, stop) ==
    IF vals[list_key].tag = "List"
    THEN LET list == vals[list_key].list
             len == Len(list)
             start1 == IF start < 0 THEN len + start ELSE start
             stop1 == IF stop < 0 THEN len + stop ELSE stop
         IN  IF start1 >= len \/ stop1 < 0 \/ start1 > stop1
             THEN Res([vals EXCEPT ![list_key] = ListV(<< >>)], <<"Bool", TRUE>>)
             ELSE LET start2 == IF start1 > 0 THEN start1 ELSE 0
                      stop2 == IF stop1 < len - 1 THEN stop1 ELSE len - 1
                  IN  Res([vals EXCEPT ![list_key] =
                               ListV(SubSeq(list, start2 + 1, stop2))],
                          <<"Bool", TRUE>>)
    ELSE Res(vals, <<"Bool", FALSE>>)

ltrim(vals, list_key, start, stop) ==
    IF vals[list_key].tag = "List"
    THEN LET list == vals[list_key].list
             len == Len(list)
             start1 == IF start < 0 THEN len + start ELSE start
             stop1 == IF stop < 0 THEN len + stop ELSE stop
         IN  IF start1 >= len \/ stop1 < 0 \/ start1 > stop1
             THEN Res([vals EXCEPT ![list_key] = ListV(<< >>)], <<"Bool", TRUE>>)
             ELSE LET start2 == IF start1 > 0 THEN start1 ELSE 0
                      stop2 == IF stop1 < len - 1 THEN stop1 ELSE len - 1
                  IN  Res([vals EXCEPT ![list_key] =
                               ListV(SubSeq(list, start2 + 1, stop2 + 1))],
                          <<"Bool", TRUE>>)
    ELSE Res(vals, <<"Bool", FALSE>>)

rpop(vals, list_key, count) ==
    LET cnt == IF count = NoneOpt THEN 1 ELSE count[1] IN
    IF vals[list_key].tag = "List"
    THEN LET list == vals[list_key].list
             n == IF cnt < Len(list) THEN cnt ELSE Len(list)
             popped == Reverse(SubSeq(list, Len(list) - n + 1, Len(list)))
         IN  Res([vals EXCEPT ![list_key] = ListV(SubSeq(list, 1, Len(list) - n))],
                 IF popped = << >> THEN <<"None">> ELSE <<"SomeList", popped>>)
    ELSE Res(vals, <<"None">>)

rpush(vals, list_key, vs, okOuter, okInner) ==
    IF ~okOuter THEN Res(vals, <<"Err", "TryReserve">>)
    ELSE LET v1 == OrInsertList(vals, list_key) IN
         IF v1[list_key].tag = "List"
         THEN IF Len(vs) > 0 /\ ~okInner THEN Res(v1, <<"Err", "TryReserve">>)
              ELSE Res([v1 EXCEPT ![list_key] = ListV(v1[list_key].list \o vs)],
                       <<"Ok">>)
         ELSE Res(v1, <<"Ok">>)

rpushx(vals, list_key, vs, okInner) ==
    IF vals[list_key].tag = "List"
    THEN IF Len(vs) > 0 /\ ~okInner THEN Res(vals, <<"Err", "TryReserve">>)
         ELSE Res([vals EXCEPT ![list_key] = ListV(vals[list_key].list \o vs)],
                  <<"Ok">>)
    ELSE Res(vals, <<"Ok">>)

(***************************************************************************)
(* ACL (common/src/acl.rs): user -> set of command ids                     *)
(***************************************************************************)
AlwaysAllowed == {"KEYEXCHANGE", "Login", "Heartbeat"}

ACL_add(map, user, command) ==
    [u \in (DOMAIN map) \cup {user} |->
        IF u = user
        THEN (IF user \in DOMAIN map THEN map[user] ELSE {}) \cup {command}
        ELSE map[u]]

\* remove that drops the user's whole entry
ACL_remove_entry(map, user, command) ==
    [u \in (DOMAIN map) \ {user} |-> map[u]]

ACL_remove(map, user, command) ==
    IF user \in DOMAIN map
    THEN [map EXCEPT ![user] = map[user] \ {command}]
    ELSE map

\* an is_allowed that asks only whether the user has an entry
ACL_is_allowed_known_user(map, user, command) ==
    IF command \in AlwaysAllowed THEN TRUE
    ELSE user \in DOMAIN map

ACL_is_allowed(map, user, command) ==
    IF command \in AlwaysAllowed THEN TRUE
    ELSE IF user \in DOMAIN map THEN command \in map[user] ELSE FALSE

ACL_list(map, user) ==
    IF user \in DOMAIN map THEN map[user] ELSE {}

\* impl ACLAble for Store
acl_add(map, user, command) == ACL_add(map, user, command)
acl_remove(map, user, command) == ACL_remove(map, user, command)
acl_is_allowed(map, user, command) == ACL_is_allowed(map, user, command)
acl_list(map, user) == ACL_list(map, user)

(***************************************************************************)
(* Command handlers: execute, from the store call to the response status.  *)
(* Each yields [v: the store's values afterwards, r: what the store call   *)
(* returned, status: OperationStatus of the response, or "Panic" when the  *)
(* handler unwinds without a response.                                     *)
(***************************************************************************)
Out(res, status) == [v |-> res.v, r |-> res.r, status |-> status]

SetCommand_execute(vals, key, value, ok1, ok2) ==
    LET res == set(vals, key, value, ok1, ok2) IN
    Out(res, IF res.r[1] = "Ok" THEN "Success" ELSE "Failure")

\* GetCommand::execute with well-formed arguments: the response
GetCommand_execute(vals, key, default) ==
    IF get(vals, key) = NoneOpt
    THEN [status |-> "Failure", content |-> default]
    ELSE [status |-> "Success", content |-> get(vals, key)]

DeleteCommand_execute(vals, key) ==
    LET res == remove(vals, key) IN
    Out(res, IF res.r[1] = "Some" THEN "Success" ELSE "NotFound")

\* for kv in args.value.into_iter(): hadd, in the iteration order `order`,
\* oks[i] the two reservations of the i-th hadd; okay collects is_ok()
RECURSIVE HSetLoop(_, _, _, _, _, _)
HSetLoop(vals, key, value, order, oks, okay) ==
    IF order = << >> THEN [v |-> vals, okay |-> okay]
    ELSE LET res == hadd(vals, key, Head(order), value[Head(order)],
                         Head(oks)[1], Head(oks)[2])
         IN  HSetLoop(res.v, key, value, Tail(order), Tail(oks),
                      okay /\ res.r[1] = "Ok")

\* okVec: okay.try_reserve_exact(args.value.len())
HashMapSetCommand_execute(vals, key, value, order, oks, okVec) ==
    IF Len(order) > 0 /\ ~okVec
    THEN [v |-> vals, r |-> <<"Err", "TryReserve">>, status |-> "Failure"]
    ELSE LET out == HSetLoop(vals, key, value, order, oks, TRUE) IN
         [v |-> out.v,
          r |-> IF out.okay THEN <<"Ok">> ELSE <<"Err", "TryReserve">>,
          status |-> IF out.okay THEN "Success" ELSE "Failure"]

HashMapDeleteCommand_execute(vals, key, field) ==
    LET res == hremove(vals, key, field) IN
    Out(res, IF res.r[2] THEN "Success" ELSE "NotFound")

HashMapIncrByCommand_execute(vals, key, field, value, okOuter, okInner) ==
    LET res == hincrby(vals, key, field, value, okOuter, okInner) IN
    Out(res, IF res.r[1] = "Panic" THEN "Panic"
             ELSE IF res.r[1] = "OkInt" THEN "Success" ELSE "Failure")

LmoveCommand_execute(vals, src, dest, left_right, right_left) ==
    LET res == lmove(vals, src, dest, left_right, right_left) IN
    Out(res, IF res.r[1] = "Panic" THEN "Panic"
             ELSE IF res.r[1] = "Some" THEN "Success" ELSE "Failure")

\* the content is the length as a string
LlenCommand_execute(vals, list) ==
    [v |-> vals, r |-> <<"Count", llen(vals, list)>>, status |-> "Success"]

LposCommand_execute(vals, list, value, rank, count, max_len, okReserve) ==
    LET res == lpos(vals, list, value, rank, count, max_len, okReserve) IN
    Out(res, IF res.r[1] = "Err" THEN "OutOfMemory"
             ELSE IF res.r[1] = "None" THEN "Failure" ELSE "Success")

LpopCommand_execute(vals, list, count, okReserve) ==
    LET res == lpop(vals, list, count, okReserve) IN
    Out(res, IF res.r[1] = "Err" THEN "OutOfMemory"
             ELSE IF res.r[1] = "None" THEN "Failure" ELSE "Success")

LpushCommand_execute(vals, list, vs, okOuter, okInner) ==
    LET res == lpush(vals, list, vs, okOuter, okInner) IN
    IF res.r[1] = "Ok"
    THEN [v |-> res.v, r |-> <<"Count", llen(res.v, list)>>, status |-> "Success"]
    ELSE Out(res, "OutOfMemory")

LpushxCommand_execute(vals, list, vs, okInner) ==
    LET res == lpushx(vals, list, vs, okInner) IN
    IF res.r[1] = "Ok"
    THEN [v |-> res.v, r |-> <<"Count", llen(res.v, list)>>, status |-> "Success"]
    ELSE Out(res, "OutOfMemory")

\* LrangeCommand::execute answers Failure when lrange returns Ok and
\* Success when it returns Err
LrangeCommand_execute(vals, list, start, stop, okReserve) ==
    LET res == lrange(vals, list, start, stop, okReserve) IN
    Out(res, IF res.r[1] = "Panic" THEN "Panic"
             ELSE IF res.r[1] = "OkList" THEN "Failure" ELSE "Success")

LremCommand_execute(vals, list, count, value) ==
    LET res == lrem(vals, list, count, value) IN
    Out(res, IF res.r[1] = "Panic" THEN "Panic" ELSE "Success")

LsetCommand_execute(vals, list, index, value) ==
    LET res == lset(vals, list, index, value) IN
    Out(res, IF res.r[1] = "Panic" THEN "Panic" ELSE "Success")

LtrimCommand_execute(vals, list, start, stop) ==
    LET res == ltrim(vals, list, start, stop) IN
    Out(res, IF res.r[2] THEN "Success" ELSE "Failure")

RpopCommand_execute(vals, list, count) ==
    LET res == rpop(vals, list, count) IN
    Out(res, IF res.r[1] = "None" THEN "Failure" ELSE "Success")

RpushCommand_execute(vals, list, vs, okOuter, okInner) ==
    LET res == rpush(vals, list, vs, okOuter, okInner) IN
    Out(res, IF res.r[1] = "Err" THEN "OutOfMemory" ELSE "Success")

RpushxCommand_execute(vals, list, vs, okInner) ==
    LET res == rpushx(vals, list, vs, okInner) IN
    Out(res, IF res.r[1] = "Err" THEN "OutOfMemory" ELSE "Success")

UserRemoveCommand_execute(vals, user) ==
    LET res == user_remove(vals, user) IN
    Out(res, IF res.r[2] THEN "Success" ELSE "NotFound")

(***************************************************************************)
(* Connections (main.rs / common/src/connection.rs)                        *)
(***************************************************************************)
ConnIds == {"c1", "c2"}

\* Connection::new
NewConnection == [is_closed |-> FALSE, user |-> NoneOpt, pub_key |-> NoneOpt]

NoFrame == [status |-> "none", encrypted_to |-> NoneOpt]

NoRequest == [op |-> "init", key |-> "", key2 |-> "", status |-> "", oom |-> FALSE]

(***************************************************************************)
(* Spec: the data command handlers acting on the shared store.  last is    *)
(* the request just served: its command, key(s), the response status and   *)
(* whether the store call returned a reservation error.                    *)
(***************************************************************************)
Vs == UNION {[1..n -> Strs] : n \in 0..MaxLen}
Idx == (0 - MaxLen)..MaxLen
Counts == 0..MaxLen
OptCounts == {NoneOpt} \cup {Some(n) : n \in Counts}
HSetArgs == UNION {[D -> HVals] : D \in SUBSET Fields}
Orders(D) == {o \in [1..Cardinality(D) -> D] : \A i, j \in DOMAIN o : i # j => o[i] # o[j]}

\* no frame is being written or read
NoFramer == [pc |-> "none"]

\* the tasks of main.rs before they are started
NoSched == [pos |-> 0]

InitCommon ==
    /\ granted = {}
    /\ sockets = {}
    /\ connection = [c \in ConnIds |-> NewConnection]
    /\ wire = [c \in ConnIds |-> NoFrame]
    /\ framer = NoFramer
    /\ sched = NoSched

\* Store::default()
Init ==
    /\ values = [k \in Keys |-> None]
    /\ acl = << >>
    /\ last = NoRequest
    /\ InitCommon

Served(op, key, key2, out) ==
    /\ values' = out.v
    /\ last' = [op |-> op, key |-> key, key2 |-> key2, status |-> out.status,
                oom |-> (out.r = <<"Err", "TryReserve">>)]
    /\ UNCHANGED <<acl, granted, sockets, connection, wire, framer, sched>>

Set ==
    \E key \in Keys, value \in Strs, ok1, ok2 \in BOOLEAN :
        Served("SET", key, "", SetCommand_execute(values, key, value, ok1, ok2))

Delete ==
    \E key \in Keys :
        Served("DELETE", key, "", DeleteCommand_execute(values, key))

HSet ==
    \E key \in Keys, value \in HSetArgs, okVec \in BOOLEAN :
        \E order \in Orders(DOMAIN value) :
            \E oks \in [1..Len(order) -> BOOLEAN \X BOOLEAN] :
                Served("HSET", key, "",
                       HashMapSetCommand_execute(values, key, value, order, oks, okVec))

HUpsert ==
    \E key \in Keys, field \in Fields, value \in HVals, okOuter, okInner \in BOOLEAN :
        LET res == hupsert(values, key, field, value, okOuter, okInner) IN
        Served("HUPSERT", key, "", Out(res, res.r[1]))

HDel ==
    \E key \in Keys, field \in Fields :
        Served("HDEL", key, "", HashMapDeleteCommand_execute(values, key, field))

HIncrBy ==
    \E key \in Keys, field \in Fields, value \in Deltas, okOuter, okInner \in BOOLEAN :
        Served("HINCRBY", key, "",
               HashMapIncrByCommand_execute(values, key, field, value, okOuter, okInner))

LMove ==
    \E src \in Keys, dest \in Keys, left_right \in Wheres, right_left \in Wheres :
        /\ llen(values, dest) < MaxLen
        /\ Served("LMOVE", src, dest,
               LmoveCommand_execute(values, src, dest, left_right, right_left))

LPop ==
    \E list \in Keys, count \in OptCounts, okReserve \in BOOLEAN :
        Served("LPOP", list, "", LpopCommand_execute(values, list, count, okReserve))

LPush ==
    \E list \in Keys, vs \in Vs, okOuter, okInner \in BOOLEAN :
        /\ llen(values, list) + Len(vs) <= MaxLen
        /\ Served("LPUSH", list, "", LpushCommand_execute(values, list, vs, okOuter, okInner))

LPushx ==
    \E list \in Keys, vs \in Vs, okInner \in BOOLEAN :
        /\ llen(values, list) + Len(vs) <= MaxLen
        /\ Served("LPUSHX", list, "", LpushxCommand_execute(values, list, vs, okInner))

LRem ==
    \E list \in Keys, count \in Idx, value \in Strs :
        Served("LREM", list, "", LremCommand_execute(values, list, count, value))

LSet ==
    \E list \in Keys, index \in Idx, value \in Strs :
        Served("LSET", list, "", LsetCommand_execute(values, list, index, value))

LTrim ==
    \E list \in Keys, start \in Idx, stop \in Idx :
        Served("LTRIM", list, "", LtrimCommand_execute(values, list, start, stop))

RPop ==
    \E list \in Keys, count \in OptCounts :
        Served("RPOP", list, "", RpopCommand_execute(values, list, count))

RPush ==
    \E list \in Keys, vs \in Vs, okOuter, okInner \in BOOLEAN :
        /\ llen(values, list) + Len(vs) <= MaxLen
        /\ Served("RPUSH", list, "", RpushCommand_execute(values, list, vs, okOuter, okInner))

RPushx ==
    \E list \in Keys, vs \in Vs, okInner \in BOOLEAN :
        /\ llen(values, list) + Len(vs) <= MaxLen
        /\ Served("RPUSHX", list, "", RpushxCommand_execute(values, list, vs, okInner))

\* bootstrap loads the configured users through user_add
UserAdd ==
    \E user \in Keys, key \in {NoneOpt, Some("K1")} :
        Served("USER_ADD", user, "",
               [v |-> user_add(values, user, Sha512Hex("pw"), key),
                r |-> <<"Ok">>, status |-> "none"])

UserRemove ==
    \E user \in Keys :
        Served("USER_REMOVE", user, "", UserRemoveCommand_execute(values, user))

Next ==
    \/ Set \/ Delete
    \/ HSet \/ HUpsert \/ HDel \/ HIncrBy
    \/ LMove \/ LPop \/ LPush \/ LPushx \/ LRem \/ LSet \/ LTrim
    \/ RPop \/ RPush \/ RPushx
    \/ UserAdd \/ UserRemove

Spec == Init /\ [][Next]_vars

(***************************************************************************)
(* SpecAcl: the ACL driven through the ACL handlers.  granted is the set   *)
(* of <<user, command>> pairs added and not removed since.                 *)
(***************************************************************************)
AclUsers == {"alice", "bob"}
AclCmds == {"Set", "Get", "Login"}
AllCmds == {"Get", "Set", "Delete", "Heartbeat", "ACL", "Login", "HSET", "KEYEXCHANGE"}

\* AclSetCommand::execute
AclSetCommand_execute(map, user, command) ==
    [acl |-> acl_add(map, user, command), status |-> "Success"]

\* AclRemoveCommand::execute
AclRemoveCommand_execute(map, user, command) ==
    [acl |-> acl_remove(map, user, command), status |-> "Success"]

AclSet ==
    \E user \in AclUsers, command \in AclCmds :
        LET out == AclSetCommand_execute(acl, user, command) IN
        /\ acl' = out.acl
        /\ granted' = granted \cup {<<user, command>>}
        /\ last' = [op |-> "ACL_SET", key |-> user, key2 |-> command,
                    status |-> out.status, oom |-> FALSE]
        /\ UNCHANGED <<values, sockets, connection, wire, framer, sched>>

AclRemove ==
    \E user \in AclUsers, command \in AclCmds :
        LET out == AclRemoveCommand_execute(acl, user, command) IN
        /\ acl' = out.acl
        /\ granted' = granted \ {<<user, command>>}
        /\ last' = [op |-> "ACL_REMOVE", key |-> user, key2 |-> command,
                    status |-> out.status, oom |-> FALSE]
        /\ UNCHANGED <<values, sockets, connection, wire, framer, sched>>

NextAcl == AclSet \/ AclRemove

SpecAcl == Init /\ [][NextAcl]_vars

(***************************************************************************)
(* The worker.  A step serves one frame of one connection from read to     *)
(* write.  last is the request just served: the connection, the command    *)
(* and its arguments (empty when the payload did not decode), what the     *)
(* read made of the frame and whether it counted as encrypted, the status  *)
(* of the response written ("none" when nothing was written, "Panic" when  *)
(* the task unwound) and the handler phases that ran.                      *)
(***************************************************************************)
NoServed == [conn |-> "", op |-> "init", a1 |-> "", a2 |-> "", frame |-> "",
             encrypted |-> FALSE, status |-> "none", content |-> NoneOpt,
             phases |-> {}]

\* users and initial ACL loaded into the store at startup
Bootstrap ==
    /\ values = [k \in Keys |->
                    IF k = "alice" THEN UserV(Sha512Hex("pw"), Some("K1"))
                    ELSE UserV(Sha512Hex("pw"), NoneOpt)]
    /\ acl = [u \in {"alice"} |-> {"Set"}]

InitWorker ==
    /\ Bootstrap
    /\ last = NoServed
    /\ InitCommon

\* age::x25519::Recipient::from_str
ParseRecipient(pub_key) ==
    IF pub_key \in Recipients THEN Some(pub_key) ELSE NoneOpt

PubKeyArgs == Recipients \cup {"garbage"}

\* what a request did: the store, the ACL and the connection afterwards, the
\* status of the response written, the phases that ran
\* ... with the content of the response, when it carries one
WOutC(vals, map, conn, status, content, phases) ==
    [values |-> vals, acl |-> map, conn |-> conn, status |-> status,
     content |-> content, phases |-> phases]

WOut(vals, map, conn, status, phases) ==
    WOutC(vals, map, conn, status, NoneOpt, phases)

\* connection.is_closed = true, nothing written
Closed(vals, map, conn) ==
    WOut(vals, map, [conn EXCEPT !.is_closed = TRUE], "none", {})

\* Connection::encrypt: the recipient the bytes are encrypted to, none when
\* no peer key is bound
Connection_encrypt_plain(conn) == NoneOpt

Connection_encrypt(conn) == conn.pub_key

\* the frame write() puts on the socket: encrypted to the peer key bound at
\* the time of the write
Frame(conn, status) == [status |-> status, encrypted_to |-> Connection_encrypt(conn)]

Apply(c, op, a1, a2, frame, encrypted, out) ==
    /\ values' = out.values
    /\ acl' = out.acl
    /\ connection' = [connection EXCEPT ![c] = out.conn]
    /\ sockets' = IF out.status = "Panic" THEN sockets \ {c} ELSE sockets
    /\ wire' = IF out.status \in {"none", "Panic"} THEN wire
               ELSE [wire EXCEPT ![c] = Frame(out.conn, out.status)]
    /\ last' = [conn |-> c, op |-> op, a1 |-> a1, a2 |-> a2, frame |-> frame,
                encrypted |-> encrypted, status |-> out.status,
                content |-> out.content, phases |-> out.phases]
    /\ UNCHANGED <<granted, framer, sched>>

Open(c) == c \in sockets /\ ~connection[c].is_closed

\* socket_listener: sockets.lock().await.push(Connection::new(socket, Uuid::new_v4()))
Accept ==
    \E c \in ConnIds :
        /\ c \notin sockets
        /\ connection[c] = NewConnection
        /\ sockets' = sockets \cup {c}
        /\ last' = [NoServed EXCEPT !.conn = c, !.op = "accept"]
        /\ UNCHANGED <<values, acl, granted, connection, wire, framer, sched>>

\* blocked.retain(|connection| !connection.is_closed)
Retain ==
    /\ \E c \in sockets : connection[c].is_closed
    /\ sockets' = {c \in sockets : ~connection[c].is_closed}
    /\ last' = [NoServed EXCEPT !.op = "retain"]
    /\ UNCHANGED <<values, acl, granted, connection, wire, framer, sched>>

\* a worker that lets every command through
worker_loop_acl_check_open(map, id, user, command) == TRUE

\* the subject of the worker's ACL check: &connection.id.to_string()
worker_loop_acl_check(map, id, user, command) ==
    acl_is_allowed(map, id, command)

(***************************************************************************)
(* SpecWorker: worker_loop of main.rs, its match arms inline               *)
(***************************************************************************)
\* Connection::read of main.rs: a frame is decrypted exactly when a peer key
\* is bound.  "plain" / "encrypted": the message and the flag; "garbled": an
\* age container handed on undecrypted; "error": the read failed
main_read(conn, sentEncrypted) ==
    IF conn.pub_key # NoneOpt
    THEN (IF sentEncrypted THEN "encrypted" ELSE "error")
    ELSE (IF sentEncrypted THEN "garbled" ELSE "plain")

\* Command::Heartbeat
arm_Heartbeat(vals, map, conn) ==
    WOut(vals, map, conn, "Success", {"arm"})

\* Command::Get
arm_Get(vals, map, conn, key) ==
    WOut(vals, map, conn,
         IF get(vals, key) = NoneOpt THEN "Failure" ELSE "Success", {"arm"})

\* Command::Set
arm_Set(vals, map, conn, key, value, ok1, ok2) ==
    LET res == set(vals, key, value, ok1, ok2) IN
    WOut(res.v, map, conn, IF res.r[1] = "Ok" THEN "Success" ELSE "Failure", {"arm"})

\* Command::Delete
arm_Delete(vals, map, conn, key) ==
    LET res == remove(vals, key) IN
    WOut(res.v, map, conn, IF res.r[1] = "Some" THEN "Success" ELSE "NotFound", {"arm"})

\* Command::ACL: Set and Remove write no response
arm_ACL(vals, map, conn, op, user, command) ==
    IF op = "Set" THEN WOut(vals, acl_add(map, user, command), conn, "none", {"arm"})
    ELSE IF op = "Remove"
         THEN WOut(vals, acl_remove(map, user, command), conn, "none", {"arm"})
         ELSE WOut(vals, map, conn, "Success", {"arm"})

\* Command::Login
arm_Login(vals, map, conn, user, password) ==
    IF user_is_valid(vals, user, Sha512Hex(password))
    THEN WOut(vals, map, [conn EXCEPT !.user = Some(user)], "Success", {"arm"})
    ELSE WOut(vals, map, conn, "Failure", {"arm"})

\* Command::KEYEXCHANGE
arm_KEYEXCHANGE(vals, map, conn, pub_key, encrypted) ==
    IF ~encrypted THEN Closed(vals, map, conn)
    ELSE IF ParseRecipient(pub_key) = NoneOpt
         THEN WOut(vals, map, conn, "Failure", {"arm"})
         ELSE WOut(vals, map, [conn EXCEPT !.pub_key = ParseRecipient(pub_key)],
                   "Success", {"arm"})

\* Err(err) of from_slice: the bytes are no Message (an age container left
\* undecrypted, an unknown command): is_closed = true and a Failure response
\* with the error text and no in_reply_to is written
parse_error(vals, map, conn) ==
    WOutC(vals, map, [conn EXCEPT !.is_closed = TRUE], "Failure",
          Some("Error parsing Message"), {})

\* one pass of the for loop body for a frame that holds a command: `arm` is
\* what the command's match arm does when the ACL check lets it through
worker_loop(c, vals, map, conn, command, sentEncrypted, arm) ==
    LET rd == main_read(conn, sentEncrypted) IN
    IF rd = "error" THEN Closed(vals, map, conn)
    ELSE IF rd = "garbled"
         THEN parse_error(vals, map, conn)
         ELSE IF ~worker_loop_acl_check(map, c, conn.user, command)
              THEN WOut(vals, map, conn, "NotAllowed", {})
              ELSE arm

WHeartbeat ==
    \E c \in ConnIds, enc \in BOOLEAN :
        /\ Open(c)
        /\ Apply(c, "Heartbeat", "", "", main_read(connection[c], enc),
                 main_read(connection[c], enc) = "encrypted",
                 worker_loop(c, values, acl, connection[c], "Heartbeat", enc,
                             arm_Heartbeat(values, acl, connection[c])))

WGet ==
    \E c \in ConnIds, enc \in BOOLEAN, key \in Keys :
        /\ Open(c)
        /\ Apply(c, "Get", key, "", main_read(connection[c], enc),
                 main_read(connection[c], enc) = "encrypted",
                 worker_loop(c, values, acl, connection[c], "Get", enc,
                             arm_Get(values, acl, connection[c], key)))

WSet ==
    \E c \in ConnIds, enc \in BOOLEAN, key \in Keys, value \in Strs, ok1, ok2 \in BOOLEAN :
        /\ Open(c)
        /\ Apply(c, "Set", key, value, main_read(connection[c], enc),
                 main_read(connection[c], enc) = "encrypted",
                 worker_loop(c, values, acl, connection[c], "Set", enc,
                             arm_Set(values, acl, connection[c], key, value, ok1, ok2)))

WDelete ==
    \E c \in ConnIds, enc \in BOOLEAN, key \in Keys :
        /\ Open(c)
        /\ Apply(c, "Delete", key, "", main_read(connection[c], enc),
                 main_read(connection[c], enc) = "encrypted",
                 worker_loop(c, values, acl, connection[c], "Delete", enc,
                             arm_Delete(values, acl, connection[c], key)))

WAcl ==
    \E c \in ConnIds, enc \in BOOLEAN, op \in {"Set", "Remove", "List"},
       user \in AclUsers, command \in AclCmds :
        /\ Open(c)
        /\ Apply(c, "ACL", op, user, main_read(connection[c], enc),
                 main_read(connection[c], enc) = "encrypted",
                 worker_loop(c, values, acl, connection[c], "ACL", enc,
                             arm_ACL(values, acl, connection[c], op, user, command)))

WLogin ==
    \E c \in ConnIds, enc \in BOOLEAN, user \in Keys, password \in Passwords :
        /\ Open(c)
        /\ Apply(c, "Login", user, password, main_read(connection[c], enc),
                 main_read(connection[c], enc) = "encrypted",
                 worker_loop(c, values, acl, connection[c], "Login", enc,
                             arm_Login(values, acl, connection[c], user, password)))

WKeyExchange ==
    \E c \in ConnIds, enc \in BOOLEAN, pub_key \in PubKeyArgs :
        /\ Open(c)
        /\ Apply(c, "KEYEXCHANGE", pub_key, "", main_read(connection[c], enc),
                 main_read(connection[c], enc) = "encrypted",
                 worker_loop(c, values, acl, connection[c], "KEYEXCHANGE", enc,
                             arm_KEYEXCHANGE(values, acl, connection[c], pub_key,
                                             connection[c].pub_key # NoneOpt)))

\* a plain frame whose command the Command enum does not know
WUnknown ==
    \E c \in ConnIds :
        /\ Open(c)
        /\ connection[c].pub_key = NoneOpt
        /\ Apply(c, "Unknown", "", "", "plain", FALSE,
                 parse_error(values, acl, connection[c]))

\* MessageContent::Response(_): connection.is_closed = true
WResponse ==
    \E c \in ConnIds :
        /\ Open(c)
        /\ connection[c].pub_key = NoneOpt
        /\ Apply(c, "Response", "", "", "plain", FALSE, Closed(values, acl, connection[c]))

\* Err(err) of connection.read: connection.is_closed = true
WReadError ==
    \E c \in ConnIds :
        /\ Open(c)
        /\ Apply(c, "ReadError", "", "", "error", FALSE, Closed(values, acl, connection[c]))

NextWorker ==
    \/ Accept \/ Retain
    \/ WHeartbeat \/ WGet \/ WSet \/ WDelete \/ WAcl \/ WLogin \/ WKeyExchange
    \/ WUnknown \/ WResponse \/ WReadError

SpecWorker == InitWorker /\ [][NextWorker]_vars

(***************************************************************************)
(* SpecRegistry: the worker over the command handlers of src/commands.     *)
(* The loop that drives a handler through pre_exec, execute and post_exec  *)
(* is not part of the sources; it follows section 4.6 of the               *)
(* specification, with the ACL check the worker of main.rs makes.          *)
(***************************************************************************)
FrameKinds == {"plain", "age", "foreign"}

\* Connection::read and decrypt of common: a frame that starts with the age
\* magic is decrypted with the server identity, any other is handed on as is
Connection_read(kind) ==
    [ok |-> kind # "foreign", encrypted |-> kind = "age"]

Connection_get_user(conn) == conn.user
Connection_set_user(conn, user) == [conn EXCEPT !.user = Some(user)]
Connection_get_pub_key(conn) == conn.pub_key
Connection_set_pub_key(conn, pub_key) == [conn EXCEPT !.pub_key = Some(pub_key)]
Connection_close(conn) == [conn EXCEPT !.is_closed = TRUE]

AllPhases == {"pre_exec", "execute", "post_exec"}
RspNone == [tag |-> "None", status |-> "", content |-> NoneOpt]
RspSomeC(status, content) == [tag |-> "Some", status |-> status, content |-> content]
RspSome(status) == RspSomeC(status, NoneOpt)
RspPanic == [tag |-> "Panic", status |-> "", content |-> NoneOpt]

\* #[derive(Default)] struct LoginCommand
LoginCommand_default ==
    [encrypted |-> FALSE, already_logged_in |-> FALSE, recipient |-> NoneOpt,
     login |-> NoneOpt]

LoginCommand_pre_exec(self, conn, encrypted) ==
    [ok |-> TRUE,
     self |-> [self EXCEPT !.encrypted = encrypted,
                           !.already_logged_in = Connection_get_user(conn) # NoneOpt,
                           !.recipient = Connection_get_pub_key(conn)]]

\* execute without the test of self.encrypted
LoginCommand_execute_unchecked(self, vals, wellFormed, user, password) ==
    IF ~wellFormed THEN [self |-> self, rsp |-> RspNone]
    ELSE IF self.already_logged_in THEN [self |-> self, rsp |-> RspNone]
    ELSE IF user_is_valid(vals, user, Sha512Hex(password))
         THEN [self |-> self, rsp |-> RspSome("Success")]
         ELSE [self |-> self, rsp |-> RspSome("Failure")]

\* self.login is assigned nowhere in execute
LoginCommand_execute(self, vals, wellFormed, user, password) ==
    IF ~wellFormed THEN [self |-> self, rsp |-> RspNone]
    ELSE IF ~self.encrypted THEN [self |-> self, rsp |-> RspNone]
    ELSE IF self.already_logged_in THEN [self |-> self, rsp |-> RspNone]
    ELSE IF user_is_valid(vals, user, Sha512Hex(password))
         THEN IF user_has_key(vals, user)
              THEN IF self.recipient = NoneOpt
                   THEN [self |-> self, rsp |-> RspPanic]
                   ELSE IF ~verify_key(vals, user, self.recipient[1])
                        THEN [self |-> self, rsp |-> RspNone]
                        ELSE [self |-> self, rsp |-> RspSome("Success")]
              ELSE [self |-> self, rsp |-> RspSome("Success")]
         ELSE [self |-> self, rsp |-> RspSome("Failure")]

LoginCommand_post_exec(self, conn) ==
    [self |-> LoginCommand_default,
     conn |-> IF self.login = NoneOpt THEN conn
              ELSE Connection_set_user(conn, self.login[1])]

\* #[derive(Default)] struct KeyExchangeCommand
KeyExchangeCommand_default == [encrypted |-> FALSE, recipient |-> NoneOpt]

KeyExchangeCommand_pre_exec(self, conn, encrypted) ==
    [ok |-> TRUE, self |-> [self EXCEPT !.encrypted = encrypted]]

\* err.to_string() of the recipient parse error
ParseRecipientError == "invalid recipient"

\* execute without the test of self.encrypted
KeyExchangeCommand_execute_unchecked(self, wellFormed, pub_key) ==
    IF ~wellFormed THEN [self |-> self, rsp |-> RspNone]
    ELSE IF ParseRecipient(pub_key) = NoneOpt
         THEN [self |-> self, rsp |-> RspSomeC("Failure", Some(ParseRecipientError))]
         ELSE [self |-> [self EXCEPT !.recipient = ParseRecipient(pub_key)],
               rsp |-> RspSome("Success")]

KeyExchangeCommand_execute(self, wellFormed, pub_key) ==
    IF ~wellFormed THEN [self |-> self, rsp |-> RspNone]
    ELSE IF ~self.encrypted THEN [self |-> self, rsp |-> RspNone]
    ELSE IF ParseRecipient(pub_key) = NoneOpt
         THEN [self |-> self, rsp |-> RspSomeC("Failure", Some(ParseRecipientError))]
         ELSE [self |-> [self EXCEPT !.recipient = ParseRecipient(pub_key)],
               rsp |-> RspSome("Success")]

KeyExchangeCommand_post_exec(self, conn) ==
    [self |-> KeyExchangeCommand_default,
     conn |-> IF self.recipient = NoneOpt THEN conn
              ELSE Connection_set_pub_key(conn, self.recipient[1])]

HeartbeatCommand_execute == RspSome("Success")

\* the loop body after the ACL check: `pre` is the result of pre_exec, `vals`
\* and `rsp` the store and the response after execute, `post` the connection
\* after post_exec.  A handler that panics takes the connection's task down.
run_handler(vals0, map, conn, pre, vals, rsp, post) ==
    IF ~pre THEN WOut(vals0, map, conn, "Failure", {"pre_exec"})
    ELSE IF rsp.tag = "Panic" THEN WOut(vals, map, conn, "Panic", {"pre_exec", "execute"})
    ELSE IF rsp.tag = "None" THEN WOut(vals, map, Connection_close(post), "none", AllPhases)
    ELSE WOutC(vals, map, post, rsp.status, rsp.content, AllPhases)

\* the loop body up to the handler
registry_loop(c, vals, map, conn, command, kind, handled) ==
    IF ~Connection_read(kind).ok THEN Closed(vals, map, conn)
    ELSE IF ~worker_loop_acl_check(map, c, conn.user, command)
         THEN WOut(vals, map, conn, "NotAllowed", {})
         ELSE handled

LoginCommand_run(vals, map, conn, encrypted, wellFormed, user, password) ==
    LET pre == LoginCommand_pre_exec(LoginCommand_default, conn, encrypted)
        ex == LoginCommand_execute(pre.self, vals, wellFormed, user, password)
        post == LoginCommand_post_exec(ex.self, conn)
    IN  run_handler(vals, map, conn, pre.ok, vals, ex.rsp, post.conn)

KeyExchangeCommand_run(vals, map, conn, encrypted, wellFormed, pub_key) ==
    LET pre == KeyExchangeCommand_pre_exec(KeyExchangeCommand_default, conn, encrypted)
        ex == KeyExchangeCommand_execute(pre.self, wellFormed, pub_key)
        post == KeyExchangeCommand_post_exec(ex.self, conn)
    IN  run_handler(vals, map, conn, pre.ok, vals, ex.rsp, post.conn)

SetCommand_run(vals, map, conn, key, value, ok1, ok2) ==
    LET ex == SetCommand_execute(vals, key, value, ok1, ok2)
    IN  run_handler(vals, map, conn, TRUE, ex.v, RspSome(ex.status), conn)

RLogin ==
    \E c \in ConnIds, kind \in FrameKinds, wellFormed \in BOOLEAN,
       user \in Keys, password \in Passwords :
        /\ Open(c)
        /\ Apply(c, "Login", IF wellFormed THEN user ELSE "",
                 IF wellFormed THEN password ELSE "", kind,
                 Connection_read(kind).encrypted,
                 registry_loop(c, values, acl, connection[c], "Login", kind,
                     LoginCommand_run(values, acl, connection[c],
                                      Connection_read(kind).encrypted,
                                      wellFormed, user, password)))

RKeyExchange ==
    \E c \in ConnIds, kind \in FrameKinds, wellFormed \in BOOLEAN, pub_key \in PubKeyArgs :
        /\ Open(c)
        /\ Apply(c, "KEYEXCHANGE", IF wellFormed THEN pub_key ELSE "", "", kind,
                 Connection_read(kind).encrypted,
                 registry_loop(c, values, acl, connection[c], "KEYEXCHANGE", kind,
                     KeyExchangeCommand_run(values, acl, connection[c],
                                            Connection_read(kind).encrypted,
                                            wellFormed, pub_key)))

RHeartbeat ==
    \E c \in ConnIds, kind \in FrameKinds :
        /\ Open(c)
        /\ Apply(c, "Heartbeat", "", "", kind, Connection_read(kind).encrypted,
                 registry_loop(c, values, acl, connection[c], "Heartbeat", kind,
                     run_handler(values, acl, connection[c], TRUE, values,
                                 HeartbeatCommand_execute, connection[c])))

RSet ==
    \E c \in ConnIds, kind \in FrameKinds, key \in Keys, value \in Strs, ok1, ok2 \in BOOLEAN :
        /\ Open(c)
        /\ Apply(c, "Set", key, value, kind, Connection_read(kind).encrypted,
                 registry_loop(c, values, acl, connection[c], "Set", kind,
                     SetCommand_run(values, acl, connection[c], key, value, ok1, ok2)))

\* a frame whose content is not a Command
RResponse ==
    \E c \in ConnIds, kind \in {"plain", "age"} :
        /\ Open(c)
        /\ Apply(c, "Response", "", "", kind, Connection_read(kind).encrypted,
                 Closed(values, acl, connection[c]))

NextRegistry ==
    \/ Accept \/ Retain
    \/ RLogin \/ RKeyExchange \/ RHeartbeat \/ RSet \/ RResponse

SpecRegistry == InitWorker /\ [][NextRegistry]_vars

(***************************************************************************)
(* SpecFramer: one byte vector written by Connection::write of common and  *)
(* read back by Connection::read.  Bytes are strings; an age container is  *)
(* the magic, the recipient it is encrypted to and the plaintext; a brotli *)
(* stream is its content followed by the end-of-stream mark, so that a     *)
(* truncated stream does not decompress.                                   *)
(***************************************************************************)
MagicLen == 11
MaxShort == 2
Bytes == {"m", "x"}
\* "age-encrypt"
Magic == [i \in 1..MagicLen |-> "m"]
ShortVecs == UNION {[1..n -> Bytes] : n \in 0..MaxShort}
\* vectors of MagicLen bytes and more, starting with the magic or not
LongVecs == {h \o t : h \in {Magic, [Magic EXCEPT ![MagicLen] = "x"]}, t \in ShortVecs}
Payloads == ShortVecs \cup LongVecs
\* the identity the reader holds, as the recipient that encrypts to it
ServerKey == "K1"

IoOk(bytes) == [tag |-> "Ok", bytes |-> bytes]
IoErr == [tag |-> "Err", bytes |-> << >>]

\* Connection::encrypt on bytes
encrypt(buf, pub_key) ==
    IF pub_key = NoneOpt THEN buf ELSE Magic \o <<pub_key[1]>> \o buf

\* Connection::compress
compress(buf) == buf \o <<"eos">>

\* decompress that hands on whatever a truncated stream yields
decompress_partial(buf) ==
    IF Len(buf) > 0 /\ buf[Len(buf)] = "eos" THEN IoOk(SubSeq(buf, 1, Len(buf) - 1))
    ELSE IoOk(buf)

\* Connection::decompress: read_to_end fails on a stream that ends early
decompress(buf) ==
    IF Len(buf) > 0 /\ buf[Len(buf)] = "eos" THEN IoOk(SubSeq(buf, 1, Len(buf) - 1))
    ELSE IoErr

\* Connection::decrypt: [tag, some, bytes]; &buf[..11] panics on a shorter buffer
decrypt(buf, key) ==
    IF Len(buf) < MagicLen THEN [tag |-> "Panic", some |-> FALSE, bytes |-> << >>]
    ELSE IF SubSeq(buf, 1, MagicLen) # Magic
         THEN [tag |-> "Ok", some |-> FALSE, bytes |-> << >>]
         ELSE IF Len(buf) > MagicLen /\ buf[MagicLen + 1] = key
              THEN [tag |-> "Ok", some |-> TRUE,
                    bytes |-> SubSeq(buf, MagicLen + 2, Len(buf))]
              ELSE [tag |-> "Err", some |-> FALSE, bytes |-> << >>]

\* Connection::write: the length prefix and the payload put on the socket
Connection_write(buf, pub_key) ==
    LET compressed_buf == compress(encrypt(buf, pub_key)) IN
    [len |-> Len(compressed_buf), payload |-> compressed_buf]

\* Connection::read of a stream whose single socket.read returns the first
\* n bytes of the payload: [tag, bytes, encrypted]
Connection_read_frame(stream, n, key) ==
    LET size == stream.len
        read == IF n < size THEN n ELSE size
        buf == SubSeq(stream.payload, 1, read)
        decompressed_buf == decompress(buf)
        decrypted == decrypt(decompressed_buf.bytes, key)
    IN  IF read = 0 THEN [tag |-> "Err", bytes |-> << >>, encrypted |-> FALSE]
        ELSE IF decompressed_buf.tag # "Ok"
             THEN [tag |-> "Err", bytes |-> << >>, encrypted |-> FALSE]
             ELSE IF decrypted.tag # "Ok"
                  THEN [tag |-> decrypted.tag, bytes |-> << >>, encrypted |-> FALSE]
                  ELSE IF decrypted.some
                       THEN [tag |-> "Ok", bytes |-> decrypted.bytes, encrypted |-> TRUE]
                       ELSE [tag |-> "Ok", bytes |-> decompressed_buf.bytes,
                             encrypted |-> FALSE]

InitFramer ==
    /\ values = [k \in Keys |-> None]
    /\ acl = << >>
    /\ last = NoRequest
    /\ granted = {}
    /\ sockets = {}
    /\ connection = [c \in ConnIds |-> NewConnection]
    /\ wire = [c \in ConnIds |-> NoFrame]
    /\ sched = NoSched
    /\ \E B \in Payloads, pub_key \in {NoneOpt} \cup {Some(k) : k \in Recipients} :
          framer = [pc |-> "idle", B |-> B, pub_key |-> pub_key]

\* the writer sends B
FramerWrite ==
    /\ framer.pc = "idle"
    /\ framer' = [pc |-> "written", B |-> framer.B, pub_key |-> framer.pub_key,
                  stream |-> Connection_write(framer.B, framer.pub_key)]
    /\ UNCHANGED <<values, acl, last, granted, sockets, connection, wire, sched>>

\* the reader reads the frame when n bytes of its payload have arrived
\* (n = 0: the stream ended after the length prefix)
FramerRead ==
    /\ framer.pc = "written"
    /\ \E n \in 0..framer.stream.len :
          framer' = [pc |-> "read", B |-> framer.B, pub_key |-> framer.pub_key,
                     stream |-> framer.stream, n |-> n,
                     result |-> Connection_read_frame(framer.stream, n, ServerKey)]
    /\ UNCHANGED <<values, acl, last, granted, sockets, connection, wire, sched>>

NextFramer == FramerWrite \/ FramerRead

SpecFramer == InitFramer /\ [][NextFramer]_vars

(***************************************************************************)
(* Claims about the store                                                  *)
(***************************************************************************)
HashOps == {"HSET", "HUPSERT", "HINCRBY", "HDEL"}
ListOps == {"LPUSH", "RPUSH", "LPOP", "RPOP", "LSET", "LTRIM", "LREM", "LMOVE"}
GrowOps == {"SET", "HUPSERT", "HINCRBY", "LPUSH", "RPUSH", "LPUSHX", "RPUSHX"}

\* C1: as claimed, no single store operation changes the variant bound to a
\* key: a key bound before and after a step is bound to the same variant.
C1_VariantFixedUntilDelete ==
    [][\A k \in Keys :
          (values[k].tag # "None" /\ values'[k].tag # "None")
              => values'[k].tag = values[k].tag]_vars

\* C2: as claimed, a hash or list command issued against a key bound to a
\* different variant answers TypeError and leaves the store unchanged.
WrongVariant(vals, op, key, key2) ==
    \/ op \in HashOps /\ vals[key].tag \notin {"None", "HashMap"}
    \/ op \in ListOps /\ vals[key].tag \notin {"None", "List"}
    \/ op = "LMOVE" /\ vals[key2].tag \notin {"None", "List"}

C2_WrongVariantIsTypeError ==
    [][WrongVariant(values, last'.op, last'.key, last'.key2)
          => (last'.status = "TypeError" /\ values' = values)]_vars

\* C3: as claimed, a growing store operation that returns a reservation
\* error leaves the store equal to the store before the call.
C3_ReserveFailureLeavesStore ==
    [][(last'.op \in GrowOps /\ last'.oom) => values' = values]_vars

\* C4: as claimed, an HSET on an absent key during which a reservation fails
\* answers OutOfMemory and stores none of its fields.
C4_HSetAllOrNothing ==
    [][(last'.op = "HSET" /\ last'.oom /\ values[last'.key] = None)
          => (last'.status = "OutOfMemory" /\ hlen(values', last'.key) = 0)]_vars

(***************************************************************************)
(* Claims about the ACL                                                    *)
(***************************************************************************)
\* C5: is_allowed(user, cmd) holds exactly when cmd is HEARTBEAT, LOGIN or
\* KEYEXCHANGE or the pair was added and not removed since; the three hold
\* for every user whatever the ACL holds, and a user that was never given
\* an entry has an empty allowed set.
C5_IsAllowedIffGranted ==
    /\ \A u \in AclUsers \cup {"nobody"}, c \in AllCmds :
          acl_is_allowed(acl, u, c) <=> (c \in AlwaysAllowed \/ <<u, c>> \in granted)
    /\ \A u \in AclUsers \cup {"nobody"} :
          acl_list(acl, u) = {c \in AllCmds : <<u, c>> \in granted}
    /\ acl_list(acl, "nobody") = {}

\* an entry was removed from a user that keeps another one, while some
\* user's allowed set was emptied by removals
C5_Witness ==
    /\ last.op = "ACL_REMOVE"
    /\ last.key2 = "Get"
    /\ <<last.key, "Set">> \in granted
    /\ <<last.key, "Get">> \notin granted
    /\ \E u \in AclUsers : u \in DOMAIN acl /\ acl[u] = {}

(***************************************************************************)
(* Claims about the worker                                                 *)
(***************************************************************************)
Commands == {"Heartbeat", "Get", "Set", "Delete", "ACL", "Login", "KEYEXCHANGE"}

C7_AclDecidesForLoggedInUser ==
    [][\A u \in Keys :
          (/\ last'.op \in Commands
           /\ connection[last'.conn].user = Some(u)
           /\ last'.op \in acl_list(acl, u))
              => (last'.status # "NotAllowed" /\ last'.phases # {})]_vars

C9_LoginWithoutKeyExchangeFails ==
    [][(/\ last'.op = "Login"
        /\ last'.a1 \in Keys
        /\ last'.encrypted
        /\ connection[last'.conn].pub_key = NoneOpt)
          => last'.status = "Failure"]_vars

\* C10: as claimed, after a LOGIN answered Success the connection's user is
\* the user name the LOGIN carried.
C10_SuccessfulLoginBindsUser ==
    [][(last'.op = "Login" /\ last'.status = "Success")
          => connection'[last'.conn].user = Some(last'.a1)]_vars

C13_PeerKeyChangesOnlyByKeyExchange ==
    [][/\ \A c \in ConnIds :
            connection'[c].pub_key # connection[c].pub_key
                => (/\ last'.op = "KEYEXCHANGE"
                    /\ last'.conn = c
                    /\ last'.encrypted
                    /\ ParseRecipient(last'.a1) # NoneOpt
                    /\ connection'[c].pub_key = ParseRecipient(last'.a1))
       /\ (/\ last'.op = "KEYEXCHANGE"
           /\ last'.encrypted
           /\ last'.a1 \in PubKeyArgs
           /\ ParseRecipient(last'.a1) = NoneOpt)
                => (/\ last'.status = "Failure"
                    /\ last'.content = Some(ParseRecipientError)
                    /\ connection' = connection)]_vars

\* a connection with a bound peer key sent a KEYEXCHANGE that does not
\* parse: Failure with the error text, still bound to the same key
C13_Witness ==
    /\ last.op = "KEYEXCHANGE"
    /\ last.encrypted
    /\ last.a1 = "garbage"
    /\ last.status = "Failure"
    /\ last.content = Some(ParseRecipientError)
    /\ connection[last.conn].pub_key = Some("K1")
    /\ ~connection[last.conn].is_closed

\* C14: as claimed, a frame that arrives unencrypted on a connection whose
\* key exchange has completed is rejected: the connection is closed, nothing
\* is answered and no handler phase runs.
C14_PlainFrameAfterKeyExchangeRejected ==
    [][(/\ last'.conn \in ConnIds
        /\ last'.frame = "plain"
        /\ connection[last'.conn].pub_key # NoneOpt)
          => (/\ connection'[last'.conn].is_closed
              /\ last'.status = "none"
              /\ last'.phases = {})]_vars

(***************************************************************************)
(* Claims about the framer                                                 *)
(***************************************************************************)
\* C15: as claimed, a frame written from byte vector B and read whole comes
\* back as (B, encrypted) when it was encrypted to the reader's identity and
\* as (B, not encrypted) when no peer key was bound on the writer.
C15_FramerRoundTrip ==
    (/\ framer.pc = "read"
     /\ framer.n = framer.stream.len
     /\ framer.pub_key \in {NoneOpt, Some(ServerKey)})
        => framer.result = [tag |-> "Ok", bytes |-> framer.B,
                            encrypted |-> framer.pub_key # NoneOpt]

C17_ProtocolViolationClosesSilently ==
    [][/\ last'.op \in {"Response", "Unknown"}
            => (/\ connection'[last'.conn].is_closed
                /\ last'.status = "none"
                /\ wire' = wire
                /\ values' = values)
       /\ \A c \in ConnIds :
            (connection[c].is_closed /\ last'.conn = c)
                => (last'.op \notin Commands /\ values' = values)]_vars

SchedFrames == {"Heartbeat", "Response", "eof"}

\* main: Store::default(), an empty Vec, both tasks started
InitSched ==
    /\ values = [k \in Keys |-> None]
    /\ acl = << >>
    /\ last = NoServed
    /\ granted = {}
    /\ sockets = {}
    /\ connection = [c \in ConnIds |-> NewConnection]
    /\ wire = [c \in ConnIds |-> NoFrame]
    /\ framer = NoFramer
    /\ sched = [pos |-> 0, vec |-> << >>, listener |-> "none", queued |-> FALSE,
                pending |-> [c \in ConnIds |-> "none"]]

\* a peer connects and listener.accept() returns its socket; the listener
\* calls accept() again only after it has pushed the socket it holds
listener_accept ==
    \E c \in ConnIds :
        /\ sched.listener = "none"
        /\ c \notin sockets
        /\ connection[c] = NewConnection
        /\ sched' = [sched EXCEPT !.listener = c, !.queued = (sched.pos # 0)]
        /\ last' = [NoServed EXCEPT !.conn = c, !.op = "accept"]
        /\ UNCHANGED <<values, acl, granted, sockets, connection, wire, framer>>

\* sockets.lock().await.push(Connection::new(..)): needs the mutex, which the
\* worker holds from lock() to the end of its pass
listener_push ==
    /\ sched.listener # "none"
    /\ sched.pos = 0
    /\ sched' = [sched EXCEPT !.vec = Append(sched.vec, sched.listener),
                              !.listener = "none", !.queued = FALSE]
    /\ sockets' = sockets \cup {sched.listener}
    /\ last' = [NoServed EXCEPT !.conn = sched.listener, !.op = "push"]
    /\ UNCHANGED <<values, acl, granted, connection, wire, framer>>

\* the peer of a connected socket sends a frame or hangs up
peer_send ==
    \E c \in ConnIds, f \in SchedFrames :
        /\ c \in sockets \cup {sched.listener}
        /\ ~connection[c].is_closed
        /\ sched.pending[c] = "none"
        /\ sched' = [sched EXCEPT !.pending[c] = f]
        /\ last' = [NoServed EXCEPT !.conn = c, !.op = "send"]
        /\ UNCHANGED <<values, acl, granted, sockets, connection, wire, framer>>

\* sleep(20ns); let mut blocked = sockets.lock().await
worker_lock ==
    /\ sched.pos = 0
    /\ ~sched.queued
    /\ sched' = [sched EXCEPT !.pos = 1, !.queued = (sched.listener # "none")]
    /\ last' = [NoServed EXCEPT !.op = "lock"]
    /\ UNCHANGED <<values, acl, granted, sockets, connection, wire, framer>>

\* the body of the for loop for vec[pos]: connection.read(&key).await returns
\* only when the peer has sent something; then the frame is served
worker_serve ==
    /\ sched.pos \in 1..Len(sched.vec)
    /\ LET c == sched.vec[sched.pos]
           f == sched.pending[c]
           out == IF f = "Heartbeat"
                  THEN worker_loop(c, values, acl, connection[c], "Heartbeat", FALSE,
                                   arm_Heartbeat(values, acl, connection[c]))
                  ELSE Closed(values, acl, connection[c])
       IN  /\ f # "none"
           /\ connection' = [connection EXCEPT ![c] = out.conn]
           /\ wire' = IF out.status = "none" THEN wire
                      ELSE [wire EXCEPT ![c] = Frame(out.conn, out.status)]
           /\ last' = [NoServed EXCEPT !.conn = c, !.op = f, !.status = out.status]
           /\ sched' = [sched EXCEPT !.pending[c] = "none", !.pos = sched.pos + 1]
    /\ UNCHANGED <<values, acl, granted, sockets, framer>>

\* blocked.retain(|connection| !connection.is_closed); the guard is dropped
worker_retain ==
    /\ sched.pos = Len(sched.vec) + 1
    /\ sched' = [sched EXCEPT !.pos = 0,
                   !.vec = SelectSeq(sched.vec, LAMBDA c : ~connection[c].is_closed)]
    /\ sockets' = {c \in sockets : ~connection[c].is_closed}
    /\ last' = [NoServed EXCEPT !.op = "retain"]
    /\ UNCHANGED <<values, acl, granted, connection, wire, framer>>

worker_step == worker_lock \/ worker_serve \/ worker_retain

NextSched ==
    \/ listener_accept \/ listener_push \/ peer_send
    \/ worker_lock \/ worker_serve \/ worker_retain

\* both tasks run whenever they can; peers are free to stay silent
SpecSched ==
    /\ InitSched
    /\ [][NextSched]_vars
    /\ WF_vars(worker_step)
    /\ WF_vars(listener_push)

\* C19: as claimed, a frame sent on a connection is eventually read and
\* served (answered, or the connection closed), and a socket the listener
\* has accepted eventually joins the served connections, whatever the other
\* connections do.
C19_ConnectionsServedIndependently ==
    /\ \A c \in ConnIds :
          (sched.pending[c] # "none") ~> (sched.pending[c] = "none")
    /\ \A c \in ConnIds :
          (sched.listener = c) ~> (c \in sockets)

(***************************************************************************)
(* SpecKv: GET, SET and DELETE on the store, with HUPSERT to bind keys to  *)
(* something that is no String.  last is the request just served and the   *)
(* one before it; `before` is what the key was bound to when it arrived.   *)
(***************************************************************************)
Defaults == {NoneOpt, Some("dflt")}

NoKv == [op |-> "init", key |-> "", value |-> NoneOpt, before |-> None,
         status |-> "", content |-> NoneOpt]

InitKv ==
    /\ values = [k \in Keys |-> None]
    /\ acl = << >>
    /\ last = [cur |-> NoKv, prev |-> NoKv]
    /\ InitCommon

KvServed(op, key, value, vals, status, content) ==
    /\ values' = vals
    /\ last' = [cur |-> [op |-> op, key |-> key, value |-> value,
                         before |-> values[key], status |-> status,
                         content |-> content],
                prev |-> last.cur]
    /\ UNCHANGED <<acl, granted, sockets, connection, wire, framer, sched>>

KvSet ==
    \E key \in Keys, value \in Strs, ok1, ok2 \in BOOLEAN :
        LET out == SetCommand_execute(values, key, value, ok1, ok2) IN
        KvServed("SET", key, Some(value), out.v, out.status, NoneOpt)

KvGet ==
    \E key \in Keys, default \in Defaults :
        LET rsp == GetCommand_execute(values, key, default) IN
        KvServed("GET", key, default, values, rsp.status, rsp.content)

KvDelete ==
    \E key \in Keys :
        LET out == DeleteCommand_execute(values, key) IN
        KvServed("DELETE", key, NoneOpt, out.v, out.status,
                 IF out.r[1] = "Some" THEN Some(out.r[2]) ELSE NoneOpt)

\* LPUSH of one element on a key that holds no element yet
KvLPush ==
    \E key \in Keys, value \in Strs :
        LET out == LpushCommand_execute(values, key, <<value>>, TRUE, TRUE) IN
        /\ llen(values, key) = 0
        /\ KvServed("LPUSH", key, NoneOpt, out.v, out.status, NoneOpt)

\* user_add of a user without public key
KvUserAdd ==
    \E key \in Keys :
        KvServed("USER_ADD", key, NoneOpt,
                 user_add(values, key, Sha512Hex("pw"), NoneOpt), "Success", NoneOpt)

KvHUpsert ==
    \E key \in Keys, field \in Fields, value \in HVals, okOuter, okInner \in BOOLEAN :
        LET res == hupsert(values, key, field, value, okOuter, okInner) IN
        KvServed("HUPSERT", key, NoneOpt, res.v, res.r[1], NoneOpt)

\* HDEL of a field
KvHDel ==
    \E key \in Keys, field \in Fields :
        LET out == HashMapDeleteCommand_execute(values, key, field) IN
        KvServed("HDEL", key, NoneOpt, out.v, out.status, NoneOpt)

NextKv ==
    \/ KvSet \/ KvGet \/ KvDelete \/ KvHUpsert \/ KvHDel
    \/ KvLPush \/ KvUserAdd

SpecKv == InitKv /\ [][NextKv]_vars

\* C20: a GET that directly follows a SET of the same key that succeeded
\* answers Success with the value that SET wrote, whatever the key was bound
\* to before the SET (nothing, another String, a hash map); and a GET of a
\* key that holds no String answers Failure with the default it was given
\* as content, or with no content when it was given none.
C20_GetReturnsLastSet ==
    [][last'.cur.op = "GET"
          => /\ (/\ last.cur.op = "SET"
                 /\ last.cur.status = "Success"
                 /\ last.cur.key = last'.cur.key)
                    => (/\ last'.cur.status = "Success"
                        /\ last'.cur.content = last.cur.value)
             /\ values[last'.cur.key].tag # "String"
                    => (/\ last'.cur.status = "Failure"
                        /\ last'.cur.content = last'.cur.value)
             /\ values' = values]_vars

\* GET answered with the value of a SET that replaced a hash map
C20_Witness ==
    /\ last.cur.op = "GET"
    /\ last.cur.status = "Success"
    /\ last.prev.op = "SET"
    /\ last.prev.key = last.cur.key
    /\ last.prev.before.tag = "HashMap"
    /\ last.cur.content = last.prev.value

\* C21: DELETE of a key bound to a String answers Success with the stored
\* string and unbinds the key, leaving every other key alone; DELETE of a
\* key that is absent or bound to a HashMap, a List or a User answers
\* NotFound and leaves the store unchanged.
C21_DeleteIsStringOnly ==
    [][last'.cur.op = "DELETE"
          => LET k == last'.cur.key IN
             IF values[k].tag = "String"
             THEN /\ last'.cur.status = "Success"
                  /\ last'.cur.content = Some(values[k].s)
                  /\ values' = [values EXCEPT ![k] = None]
             ELSE /\ last'.cur.status = "NotFound"
                  /\ last'.cur.content = NoneOpt
                  /\ values' = values]_vars

\* DELETE of a key bound to a User was answered NotFound, the user is still
\* there, and the other key holds a List
C21_Witness ==
    /\ last.cur.op = "DELETE"
    /\ last.cur.before.tag = "User"
    /\ last.cur.status = "NotFound"
    /\ values[last.cur.key].tag = "User"
    /\ \E k \in Keys : values[k].tag = "List"

(***************************************************************************)
(* SpecHash: HSET, HDEL and HINCRBY on keys that are absent or hold a hash *)
(* map.  last is the request just served: its arguments, whether every     *)
(* reservation was granted, the status and what the store call returned.   *)
(***************************************************************************)
\* the field HINCRBY is sent for, and the increments it is sent with
IncrFields == {"f1"}
IncrBys == {I64_MIN, 0 - 1, 1, I64_MAX}

NoHash == [op |-> "init", key |-> "", field |-> "", arg |-> << >>, n |-> 0,
           alloc |-> TRUE, status |-> "", r |-> << >>, before |-> None]

InitHash ==
    /\ values = [k \in Keys |-> None]
    /\ acl = << >>
    /\ last = NoHash
    /\ InitCommon

HashServed(op, key, field, arg, n, alloc, out) ==
    /\ values' = out.v
    /\ last' = [op |-> op, key |-> key, field |-> field, arg |-> arg, n |-> n,
                alloc |-> alloc, status |-> out.status, r |-> out.r,
                before |-> values[key]]
    /\ UNCHANGED <<acl, granted, sockets, connection, wire, framer, sched>>

\* ok: what the two reservations of each hadd of this request return
HhSet ==
    \E key \in Keys, value \in HSetArgs, okVec \in BOOLEAN, ok \in BOOLEAN \X BOOLEAN :
        \E order \in Orders(DOMAIN value) :
            HashServed("HSET", key, "", value, 0, okVec /\ ok[1] /\ ok[2],
                       HashMapSetCommand_execute(values, key, value, order,
                                                 [i \in 1..Len(order) |-> ok], okVec))

HhDel ==
    \E key \in Keys, field \in Fields :
        HashServed("HDEL", key, field, << >>, 0, TRUE,
                   HashMapDeleteCommand_execute(values, key, field))

HhIncrBy ==
    \E key \in Keys, field \in IncrFields, value \in IncrBys, okOuter, okInner \in BOOLEAN :
        HashServed("HINCRBY", key, field, << >>, value, okOuter /\ okInner,
                   HashMapIncrByCommand_execute(values, key, field, value, okOuter, okInner))

NextHash == HhSet \/ HhDel \/ HhIncrBy

SpecHash == InitHash /\ [][NextHash]_vars

(***************************************************************************)
(* Claims about the hash commands                                          *)
(***************************************************************************)
\* C22: on a key that is absent or holds a hash map, an HSET whose
\* reservations are all granted succeeds, after it HGET of every field sent
\* returns the value sent and every other field of the key reads as before;
\* after an HDEL of a field HEXISTS of it is false and every other field of
\* the key reads as before; other keys are untouched by both.
C22_HSetHDelFieldwise ==
    [][LET k == last'.key IN
       /\ (last'.op = "HSET" /\ last'.alloc)
            => /\ last'.status = "Success"
               /\ \A f \in Fields :
                    hget(values', k, f) =
                        IF f \in DOMAIN last'.arg THEN Some(last'.arg[f])
                        ELSE hget(values, k, f)
               /\ \A o \in Keys \ {k} : values'[o] = values[o]
       /\ last'.op = "HDEL"
            => /\ ~hcontains(values', k, last'.field)
               /\ \A f \in Fields \ {last'.field} :
                    hget(values', k, f) = hget(values, k, f)
               /\ \A o \in Keys \ {k} : values'[o] = values[o]]_vars

\* an HDEL removed one of two fields of a hash map: the other one, which
\* holds a number written by HINCRBY, is still there
C22_Witness ==
    /\ last.op = "HDEL"
    /\ last.field = "f2"
    /\ last.before.tag = "HashMap"
    /\ DOMAIN last.before.map = {"f1", "f2"}
    /\ hget(values, last.key, "f1") = Some(ToStr(1))
    /\ ~hcontains(values, last.key, "f2")

\* C23: an HINCRBY by n whose reservations are granted, on a key that is
\* absent or holds a hash map: when the field is absent it is installed with
\* the decimal string of n and n is returned; when it holds the decimal
\* string of x it becomes x + n, which is returned, if that fits the signed
\* integer, and becomes 0, returning 0, if it does not.
C23_HIncrByArithmetic ==
    [][(last'.op = "HINCRBY" /\ last'.alloc)
          => LET k == last'.key
                 f == last'.field
                 n == last'.n
                 old == hget(values, k, f)
             IN  IF old = NoneOpt
                 THEN /\ last'.status = "Success"
                      /\ last'.r = <<"OkInt", n>>
                      /\ hget(values', k, f) = Some(ToStr(n))
                 ELSE \A x \in I64_MIN..I64_MAX :
                        old = Some(ToStr(x))
                          => LET sum == IF x + n \in I64_MIN..I64_MAX THEN x + n ELSE 0
                             IN  /\ last'.status = "Success"
                                 /\ last'.r = <<"OkInt", sum>>
                                 /\ hget(values', k, f) = Some(ToStr(sum))]_vars

\* an HINCRBY overflowed downwards: the field held a negative number, the
\* increment was negative, and the field now holds 0
C23_Witness ==
    /\ last.op = "HINCRBY"
    /\ last.before.tag = "HashMap"
    /\ last.field \in DOMAIN last.before.map
    /\ last.before.map[last.field] = ToStr(I64_MIN)
    /\ last.n = 0 - 1
    /\ last.r = <<"OkInt", 0>>
    /\ hget(values, last.key, last.field) = Some(ToStr(0))

\* C24: as claimed, an HINCRBY on a field whose string is no integer is
\* answered TypeError and leaves the store as it was.
C24_HIncrByNonIntegerIsTypeError ==
    [][(/\ last'.op = "HINCRBY"
        /\ last'.alloc
        /\ hcontains(values, last'.key, last'.field)
        /\ ~ParseI64(values[last'.key].map[last'.field]).ok)
          => (/\ last'.status = "TypeError"
              /\ values' = values)]_vars

(***************************************************************************)
(* SpecList: the list commands on lists that RPUSH builds one element at a *)
(* time.  last is the request just served: its arguments, the status, what *)
(* the store call returned and the store it was served on.  A handler that *)
(* panics ends the worker: nothing is served afterwards.  To bound the     *)
(* interleavings, not the stores, the client sends an RPUSH or a SET       *)
(* between any two of the other commands.                                  *)
(***************************************************************************)
\* the two lists together never hold more than ListCap elements
ListCap == MaxLen + 1
Elems == {"a", "b", "c"}
ListIdx == (0 - (ListCap + 1))..(ListCap + 1)
ListCounts == {NoneOpt} \cup {Some(n) : n \in 0..(ListCap + 1)}

NoList == [op |-> "init", key |-> "", key2 |-> "", a1 |-> 0, a2 |-> 0,
           alloc |-> TRUE, status |-> "", r |-> << >>, before |-> << >>]

InitList ==
    /\ values = [k \in Keys |-> None]
    /\ acl = << >>
    /\ last = NoList
    /\ InitCommon

ListBuilders == {"init", "RPUSH", "SET"}

ListBuilt(op, out) ==
    /\ last.status # "Panic"
    /\ values' = out.v
    /\ last' = [NoList EXCEPT !.op = op, !.status = out.status]
    /\ UNCHANGED <<acl, granted, sockets, connection, wire, framer, sched>>

ListServed(op, key, key2, a1, a2, alloc, out) ==
    /\ last.op \in ListBuilders
    /\ values' = out.v
    /\ last' = [op |-> op, key |-> key, key2 |-> key2, a1 |-> a1, a2 |-> a2,
                alloc |-> alloc, status |-> out.status, r |-> out.r,
                before |-> values]
    /\ UNCHANGED <<acl, granted, sockets, connection, wire, framer, sched>>

LsRPush ==
    \E list \in Keys, value \in Elems :
        /\ llen(values, "alice") + llen(values, "bob") < ListCap
        /\ ListBuilt("RPUSH", RpushCommand_execute(values, list, <<value>>, TRUE, TRUE))

\* SET binds a key to a String
LsSet ==
    \E key \in Keys :
        ListBuilt("SET", SetCommand_execute(values, key, "a", TRUE, TRUE))

LsMove ==
    \E src \in Keys, dest \in Keys, left_right \in Wheres, right_left \in Wheres :
        ListServed("LMOVE", src, dest, left_right, right_left, TRUE,
                   LmoveCommand_execute(values, src, dest, left_right, right_left))

LsRem ==
    \E list \in Keys, count \in ListIdx, value \in Elems :
        ListServed("LREM", list, "", count, value, TRUE,
                   LremCommand_execute(values, list, count, value))

LsRange ==
    \E list \in Keys, start \in ListIdx, stop \in ListIdx, okReserve \in BOOLEAN :
        ListServed("LRANGE", list, "", start, stop, okReserve,
                   LrangeCommand_execute(values, list, start, stop, okReserve))

LsTrim ==
    \E list \in Keys, start \in ListIdx, stop \in ListIdx :
        ListServed("LTRIM", list, "", start, stop, TRUE,
                   LtrimCommand_execute(values, list, start, stop))

LsLPop ==
    \E list \in Keys, count \in ListCounts, okReserve \in BOOLEAN :
        ListServed("LPOP", list, "", count, 0, okReserve,
                   LpopCommand_execute(values, list, count, okReserve))

LsRPop ==
    \E list \in Keys, count \in ListCounts :
        ListServed("RPOP", list, "", count, 0, TRUE,
                   RpopCommand_execute(values, list, count))

NextList ==
    \/ LsRPush \/ LsSet \/ LsMove
    \/ LsRem \/ LsRange \/ LsTrim \/ LsLPop \/ LsRPop

SpecList == InitList /\ [][NextList]_vars

(***************************************************************************)
(* Claims about the list commands                                          *)
(***************************************************************************)
\* C25: as claimed, LMOVE k k "right" "left" on a list that holds elements
\* moves its last element to the front (so [a,b,c] becomes [c,a,b]) and
\* returns that element.
C25_LMoveSameKeyRotates ==
    [][(/\ last'.op = "LMOVE"
        /\ last'.key2 = last'.key
        /\ Lower(last'.a1) = "right"
        /\ Lower(last'.a2) = "left"
        /\ values[last'.key].tag = "List"
        /\ Len(values[last'.key].list) = 3)
          => LET l == values[last'.key].list IN
             /\ values'[last'.key] = ListV(<<l[3], l[1], l[2]>>)
             /\ last'.r = <<"Some", l[3]>>]_vars

\* C26: as claimed, an LMOVE between two different keys with both where
\* arguments naming an end, from a list that holds elements to a list, takes
\* the element at the named end of the source, puts it at the named end of
\* the destination and returns it; an LMOVE that cannot be done (a where
\* argument that names no end, a source that is no list or is empty, a
\* destination that is no list) returns None.
C26_LMoveReturnsMovedElement ==
    [][(last'.op = "LMOVE" /\ last'.key2 # last'.key)
          => LET src == values[last'.key]
                 dst == values[last'.key2]
                 possible == /\ Lower(last'.a1) \in {"left", "right"}
                             /\ Lower(last'.a2) \in {"left", "right"}
                             /\ src.tag = "List"
                             /\ src.list # << >>
                             /\ dst.tag = "List"
             IN  IF possible
                 THEN LET l == src.list
                          elem == IF Lower(last'.a1) = "left" THEN l[1] ELSE l[Len(l)]
                      IN  /\ last'.r = <<"Some", elem>>
                          /\ values'[last'.key] =
                                ListV(IF Lower(last'.a1) = "left" THEN Tail(l)
                                      ELSE SubSeq(l, 1, Len(l) - 1))
                          /\ values'[last'.key2] =
                                ListV(IF Lower(last'.a2) = "left" THEN <<elem>> \o dst.list
                                      ELSE Append(dst.list, elem))
                 ELSE last'.r = <<"None">>]_vars

\* the list without its first n elements equal to value, scanning from the head
RECURSIVE WithoutFirst(_, _, _)
WithoutFirst(list, value, n) ==
    IF list = << >> THEN << >>
    ELSE IF Head(list) = value /\ n > 0 THEN WithoutFirst(Tail(list), value, n - 1)
         ELSE <<Head(list)>> \o WithoutFirst(Tail(list), value, n)

Min(x, y) == IF x < y THEN x ELSE y
Max(x, y) == IF x < y THEN y ELSE x

\* C27: as claimed, LREM on a list removes the first min(count, matches)
\* elements equal to value when count > 0, the last min(|count|, matches)
\* when count < 0 and all of them when count = 0, keeps everything else in
\* order, and returns the number of elements removed.
C27_LRemRemovesMatches ==
    [][(last'.op = "LREM" /\ values[last'.key].tag = "List")
          => LET l == values[last'.key].list
                 count == last'.a1
                 value == last'.a2
                 matches == Cardinality({i \in 1..Len(l) : l[i] = value})
                 n == IF count > 0 THEN Min(count, matches)
                      ELSE IF count < 0 THEN Min(0 - count, matches)
                      ELSE matches
             IN  /\ last'.r = <<"Count", n>>
                 /\ values'[last'.key] =
                        ListV(IF count < 0
                              THEN Reverse(WithoutFirst(Reverse(l), value, n))
                              ELSE WithoutFirst(l, value, n))]_vars

\* C28: as claimed, LRANGE on a list, with its reservation granted, returns
\* for every pair of bounds, without error, the elements between the bounds
\* after a negative bound is moved up by the length and both are clamped to
\* the list (the stop bound read as exclusive or as inclusive), nothing when
\* start is beyond stop, and leaves the store as it was.
C28_LRangeClampsBounds ==
    [][(last'.op = "LRANGE" /\ last'.alloc /\ values[last'.key].tag = "List")
          => LET l == values[last'.key].list
                 len == Len(l)
                 lo == Max(0, IF last'.a1 < 0 THEN last'.a1 + len ELSE last'.a1)
                 hi == IF last'.a2 < 0 THEN last'.a2 + len ELSE last'.a2
             IN  /\ values' = values
                 /\ last'.r[1] = "OkList"
                 /\ last'.r[2] \in {SubSeq(l, lo + 1, Max(0, Min(hi, len))),
                                    SubSeq(l, lo + 1, Max(0, Min(hi + 1, len)))}
                 /\ lo > hi => last'.r[2] = << >>]_vars

PosRanks == {NoneOpt} \cup {Some(n) : n \in (0 - MaxLen)..MaxLen}
PosCounts == {NoneOpt} \cup {Some(n) : n \in 0..MaxLen}

LsPos ==
    \E list \in Keys, value \in Strs, rank \in PosRanks, count \in PosCounts,
       max_len \in PosCounts, okReserve \in BOOLEAN :
        ListServed("LPOS", list, "", value, <<rank, count, max_len>>, okReserve,
                   LposCommand_execute(values, list, value, rank, count, max_len,
                                       okReserve))

NextPos == LsRPush \/ LsSet \/ LsPos

SpecPos == InitList /\ [][NextPos]_vars

\* the indices LPOS is to return: the elements examined in scan order, those
\* equal to value among them, from the n-th of these on, at most count
Expected_lpos(list, value, rank, count, max_len) ==
    LET fwd == [i \in 1..Len(list) |-> i - 1]
        scan == IF rank > 0 THEN fwd ELSE Reverse(fwd)
        seen == IF max_len = 0 THEN scan
                ELSE SubSeq(scan, 1, Min(max_len, Len(scan)))
        IsHit(i) == list[i + 1] = value
        hits == SelectSeq(seen, IsHit)
        n == IF rank > 0 THEN rank ELSE 0 - rank
    IN  SubSeq(hits, n, Min(n + count - 1, Len(hits)))

\* C31: as claimed, LPOS on a list with a rank other than 0, a count of at
\* least 1 and its reservation granted scans head to tail for rank > 0 and
\* tail to head for rank < 0, examines at most max_len elements (all when
\* max_len = 0), returns the indices of the elements equal to value from the
\* |rank|-th match in scan order on, up to count of them, and returns None
\* exactly when that is no index at all; rank and count are 1 and max_len is
\* 0 when not given.
C31_LPosCollectsFromRank ==
    [][(/\ last'.op = "LPOS"
        /\ last'.alloc
        /\ values[last'.key].tag = "List"
        /\ last'.a2[1] # Some(0)
        /\ last'.a2[2] # Some(0))
          => LET rank == IF last'.a2[1] = NoneOpt THEN 1 ELSE last'.a2[1][1]
                 count == IF last'.a2[2] = NoneOpt THEN 1 ELSE last'.a2[2][1]
                 max_len == IF last'.a2[3] = NoneOpt THEN 0 ELSE last'.a2[3][1]
                 want == Expected_lpos(values[last'.key].list, last'.a1,
                                       rank, count, max_len)
             IN  /\ values' = values
                 /\ last'.r = IF want = << >> THEN <<"None">>
                              ELSE <<"SomeList", want>>]_vars

(***************************************************************************)
(* SpecPush: the four push commands with several values at once, on the    *)
(* stores that single RPUSHes and SET build.  a1 holds the values pushed,  *)
(* alloc whether every reservation of the request was granted.             *)
(***************************************************************************)
PushVs == UNION {[1..n -> Strs] : n \in 0..MaxLen} \cup {<<"a", "b", "c">>}

\* a push of several values follows a single RPUSH or a SET, while the
\* lists hold no more than ListCap elements
PushServed(op, list, vs, alloc, out) ==
    /\ last.key = ""
    /\ llen(values, "alice") + llen(values, "bob") <= ListCap
    /\ ListServed(op, list, "", vs, 0, alloc, out)

PxLPush ==
    \E list \in Keys, vs \in PushVs, okOuter \in BOOLEAN, okInner \in BOOLEAN :
        PushServed("LPUSH", list, vs, okOuter /\ okInner,
                   LpushCommand_execute(values, list, vs, okOuter, okInner))

PxRPush ==
    \E list \in Keys, vs \in PushVs, okOuter \in BOOLEAN, okInner \in BOOLEAN :
        PushServed("RPUSH", list, vs, okOuter /\ okInner,
                   RpushCommand_execute(values, list, vs, okOuter, okInner))

PxLPushx ==
    \E list \in Keys, vs \in PushVs, okInner \in BOOLEAN :
        PushServed("LPUSHX", list, vs, okInner,
                   LpushxCommand_execute(values, list, vs, okInner))

PxRPushx ==
    \E list \in Keys, vs \in PushVs, okInner \in BOOLEAN :
        PushServed("RPUSHX", list, vs, okInner,
                   RpushxCommand_execute(values, list, vs, okInner))

NextPush == LsRPush \/ LsSet \/ PxLPush \/ PxRPush \/ PxLPushx \/ PxRPushx

SpecPush == InitList /\ [][NextPush]_vars

\* C32: with every reservation granted, LPUSH and RPUSH of n values on an
\* absent key bind it to a list of n elements and on a list make it n
\* elements longer, so that LLEN then answers the sum (LPUSH answers it
\* itself), and LPUSHX and RPUSHX on an absent key answer Success and leave
\* the store as it was; no other key changes.
C32_PushGrowsByCount ==
    [][(/\ last'.op \in {"LPUSH", "RPUSH", "LPUSHX", "RPUSHX"}
        /\ last'.key \in Keys
        /\ last'.alloc)
          => LET key == last'.key
                 n == Len(last'.a1)
             IN  /\ last'.status = "Success"
                 /\ \A k \in Keys \ {key} : values'[k] = values[k]
                 /\ (last'.op \in {"LPUSH", "RPUSH"} /\ values[key].tag \in {"None", "List"})
                      => /\ values'[key].tag = "List"
                         /\ Len(values'[key].list) = llen(values, key) + n
                         /\ LlenCommand_execute(values', key).r
                              = <<"Count", llen(values, key) + n>>
                         /\ last'.op = "LPUSH"
                              => last'.r = <<"Count", llen(values, key) + n>>
                 /\ (last'.op \in {"LPUSHX", "RPUSHX"} /\ values[key] = None)
                      => values' = values]_vars

\* LPUSH of [a, b, c] on an absent key left a list of three elements
C32_Witness ==
    /\ last.op = "LPUSH"
    /\ last.a1 = <<"a", "b", "c">>
    /\ last.before[last.key] = None
    /\ last.status = "Success"
    /\ llen(values, last.key) = 3

(***************************************************************************)
(* SpecUser: user_add and USER_REMOVE on stores that hold Strings, hash    *)
(* maps, lists and users, with ACL entries granted in between.  last is    *)
(* the request just served; for a user command it records the arguments    *)
(* and what the store call returned.                                       *)
(***************************************************************************)
NoUser == [op |-> "init", key |-> "", password |-> "", public_key |-> NoneOpt,
           status |-> "", r |-> << >>]

InitUser ==
    /\ values = [k \in Keys |-> None]
    /\ acl = << >>
    /\ last = NoUser
    /\ InitCommon

UserBuilt(op, vals, map) ==
    /\ values' = vals
    /\ acl' = map
    /\ last' = [NoUser EXCEPT !.op = op]
    /\ UNCHANGED <<granted, sockets, connection, wire, framer, sched>>

UsSet ==
    \E key \in Keys :
        UserBuilt("SET", SetCommand_execute(values, key, "a", TRUE, TRUE).v, acl)

UsDelete ==
    \E key \in Keys :
        UserBuilt("DELETE", DeleteCommand_execute(values, key).v, acl)

UsHUpsert ==
    \E key \in Keys :
        UserBuilt("HUPSERT", hupsert(values, key, "f1", "a", TRUE, TRUE).v, acl)

UsRPush ==
    \E key \in Keys :
        /\ llen(values, key) = 0
        /\ UserBuilt("RPUSH", RpushCommand_execute(values, key, <<"a">>, TRUE, TRUE).v, acl)

UsAclSet ==
    \E user \in AclUsers, command \in {"Set", "Get"} :
        UserBuilt("ACL_SET", values, AclSetCommand_execute(acl, user, command).acl)

UsAdd ==
    \E user \in Keys, password \in Passwords, public_key \in {NoneOpt, Some("K1")} :
        /\ values' = user_add(values, user, Sha512Hex(password), public_key)
        /\ last' = [op |-> "USER_ADD", key |-> user, password |-> Sha512Hex(password),
                    public_key |-> public_key, status |-> "", r |-> << >>]
        /\ UNCHANGED <<acl, granted, sockets, connection, wire, framer, sched>>

UsRemove ==
    \E user \in Keys :
        LET out == UserRemoveCommand_execute(values, user) IN
        /\ values' = out.v
        /\ last' = [NoUser EXCEPT !.op = "USER_REMOVE", !.key = user,
                                  !.status = out.status, !.r = out.r]
        /\ UNCHANGED <<acl, granted, sockets, connection, wire, framer, sched>>

NextUser ==
    \/ UsSet \/ UsDelete \/ UsHUpsert \/ UsRPush \/ UsAclSet
    \/ UsAdd \/ UsRemove

SpecUser == InitUser /\ [][NextUser]_vars

\* C33: user_add binds the name to the User it is given when the name is
\* bound to nothing, and otherwise changes nothing; USER_REMOVE returns true
\* (and answers Success) exactly when the name is bound to a User, and then
\* unbinds it; both leave every other key and the ACL as they were.
C33_UserAddRemoveTouchOnlyTheUser ==
    [][/\ last'.op = "USER_ADD"
          => /\ values' = IF values[last'.key] = None
                          THEN [values EXCEPT ![last'.key] =
                                   UserV(last'.password, last'.public_key)]
                          ELSE values
             /\ acl' = acl
       /\ last'.op = "USER_REMOVE"
          => /\ last'.r = <<"Bool", values[last'.key].tag = "User">>
             /\ last'.status = "Success" <=> values[last'.key].tag = "User"
             /\ values' = IF values[last'.key].tag = "User"
                          THEN [values EXCEPT ![last'.key] = None]
                          ELSE values
             /\ acl' = acl]_vars

\* USER_REMOVE unbound alice while bob held a list and the ACL held entries
\* for alice
C33_Witness ==
    /\ last.op = "USER_REMOVE"
    /\ last.key = "alice"
    /\ last.r = <<"Bool", TRUE>>
    /\ values["alice"] = None
    /\ values["bob"].tag = "List"
    /\ "alice" \in DOMAIN acl

\* C34: as claimed, a key comes to hold a User only by user_add, and a key
\* that holds a User keeps exactly that User through every command other
\* than a USER_REMOVE of that key: no SET, DELETE, hash or list command
\* removes or replaces it.
C34_UsersProtectedFromDataCommands ==
    [][\A k \in Keys :
          /\ (values'[k].tag = "User" /\ values'[k] # values[k])
                => (last'.op = "USER_ADD" /\ last'.key = k)
          /\ (values[k].tag = "User" /\ values'[k] # values[k])
                => (last'.op = "USER_REMOVE" /\ last'.key = k)]_vars

\* C35: as claimed, in every reachable state a connection that is logged in
\* as a user who has a stored public key has that key bound as its peer key
\* (so no KEYEXCHANGE after the login has bound another one).
C35_LoggedInKeyIsStoredKey ==
    \A c \in ConnIds :
        LET user == connection[c].user IN
        (user # NoneOpt /\ user_has_key(values, user[1]))
            => connection[c].pub_key = values[user[1]].key

\* C36: as claimed, on a connection that stays open the bound user changes
\* only by a LOGIN of that connection that is answered Success, a
\* connection that has a user keeps that user through every step (a second
\* LOGIN is refused), and a LOGIN answered Failure leaves the user as it
\* was.
C36_UserBoundOnceByLogin ==
    [][\A c \in ConnIds :
          (c \in sockets /\ c \in sockets')
             => /\ connection'[c].user # connection[c].user
                     => /\ last'.op = "Login"
                        /\ last'.conn = c
                        /\ last'.status = "Success"
                /\ connection[c].user # NoneOpt
                     => /\ connection'[c].user = connection[c].user
                        /\ (last'.op = "Login" /\ last'.conn = c)
                              => last'.status # "Success"
                /\ (last'.op = "Login" /\ last'.conn = c /\ last'.status = "Failure")
                     => connection'[c].user = connection[c].user]_vars

(***************************************************************************)
(* SpecTasks: one task per connection on the shared store.  Each task      *)
(* takes a frame, has the ACL checked under a reader acquisition, and then *)
(* runs the handler's execute, which takes the lock itself: the writer     *)
(* from its first store access to its return (HSET, LPUSH, SET, HDEL, the  *)
(* ACL commands), a reader for HLEN.  A handler that makes several store   *)
(* calls under its writer takes one step for each.  sched holds the lock   *)
(* and each task's position; last is the step just taken.                  *)
(***************************************************************************)
\* the subject of the ACL check: connection.user or ""
Subject(conn) == IF conn.user = NoneOpt THEN "" ELSE conn.user[1]

\* the command id the ACL is asked about
CommandId(op) == IF op \in {"ACL_SET", "ACL_REMOVE"} THEN "ACL" ELSE op

TaskCmdIds == {"Set", "ACL", "HSET", "HLEN", "HDEL", "LPUSH"}

\* tokio::sync::RwLock: read() is granted while no writer holds the lock
RwLock_read_unguarded(lock) == TRUE

RwLock_read(lock) == lock = NoneOpt

\* write() is granted while nobody holds the lock; a reader holds it only
\* within a step
RwLock_write(lock) == lock = NoneOpt

NoTask == [pc |-> "read", op |-> "", a1 |-> "", a2 |-> "", n |-> 0, okay |-> TRUE]

NoStep == [conn |-> "", op |-> "init", phase |-> "", status |-> "", r |-> << >>]

\* the configuration grants the anonymous subject every command
InitTasks ==
    /\ values = [k \in Keys |-> None]
    /\ acl = [u \in {""} |-> TaskCmdIds]
    /\ granted = {<<"", id>> : id \in TaskCmdIds}
    /\ last = NoStep
    /\ sockets = ConnIds
    /\ connection = [c \in ConnIds |-> NewConnection]
    /\ wire = [c \in ConnIds |-> NoFrame]
    /\ framer = NoFramer
    /\ sched = [lock |-> NoneOpt, task |-> [c \in ConnIds |-> NoTask]]

TaskRequests ==
    {<<"Set", k, "a">> : k \in Keys}
      \cup {<<op, "", "Set">> : op \in {"ACL_SET", "ACL_REMOVE"}}
      \cup {<<"HSET", "alice", o>> : o \in Orders(Fields)}
      \cup {<<"HLEN", "alice", "">>}
      \cup {<<"HDEL", "alice", f>> : f \in Fields}
      \cup {<<"LPUSH", "bob", <<"a">> >>}

TaskStep(c, task, lock, step) ==
    /\ sched' = [lock |-> lock, task |-> [sched.task EXCEPT ![c] = task]]
    /\ last' = [conn |-> c, op |-> step[1], phase |-> step[2], status |-> step[3],
                r |-> step[4]]
    /\ UNCHANGED <<sockets, connection, wire, framer>>

\* the frame is decoded and the ACL asked, under a reader; the client
\* sends an LPUSH while the list is shorter than ListCap
task_acl_check ==
    \E c \in ConnIds, req \in TaskRequests :
        /\ sched.task[c].pc = "read"
        /\ req[1] = "LPUSH" => llen(values, req[2]) < ListCap
        /\ RwLock_read(sched.lock)
        /\ IF acl_is_allowed(acl, Subject(connection[c]), CommandId(req[1]))
           THEN TaskStep(c, [NoTask EXCEPT !.pc = "checked", !.op = req[1],
                                           !.a1 = req[2], !.a2 = req[3]],
                         sched.lock, <<req[1], "acl", "", << >> >>)
           ELSE TaskStep(c, NoTask, sched.lock, <<req[1], "acl", "NotAllowed", << >> >>)
        /\ UNCHANGED <<values, acl, granted>>

\* an execute that is one store call under its lock
task_execute ==
    \E c \in ConnIds, ok \in BOOLEAN :
        LET t == sched.task[c] IN
        /\ t.pc = "checked"
        /\ \/ /\ t.op = "Set"
              /\ RwLock_write(sched.lock)
              /\ LET out == SetCommand_execute(values, t.a1, t.a2, ok, ok) IN
                 /\ values' = out.v
                 /\ TaskStep(c, NoTask, sched.lock, <<t.op, "execute", out.status, out.r>>)
              /\ UNCHANGED <<acl, granted>>
           \/ /\ t.op = "HDEL"
              /\ ok
              /\ RwLock_write(sched.lock)
              /\ LET out == HashMapDeleteCommand_execute(values, t.a1, t.a2) IN
                 /\ values' = out.v
                 /\ TaskStep(c, NoTask, sched.lock, <<t.op, "execute", out.status, out.r>>)
              /\ UNCHANGED <<acl, granted>>
           \/ /\ t.op = "HLEN"
              /\ ok
              /\ RwLock_read(sched.lock)
              /\ TaskStep(c, NoTask, sched.lock,
                          <<t.op, "execute", "Success", <<"Count", hlen(values, t.a1)>> >>)
              /\ UNCHANGED <<values, acl, granted>>
           \/ /\ t.op = "ACL_SET"
              /\ ok
              /\ RwLock_write(sched.lock)
              /\ LET out == AclSetCommand_execute(acl, t.a1, t.a2) IN
                 /\ acl' = out.acl
                 /\ granted' = granted \cup {<<t.a1, t.a2>>}
                 /\ TaskStep(c, NoTask, sched.lock, <<t.op, "execute", out.status, << >> >>)
              /\ UNCHANGED values
           \/ /\ t.op = "ACL_REMOVE"
              /\ ok
              /\ RwLock_write(sched.lock)
              /\ LET out == AclRemoveCommand_execute(acl, t.a1, t.a2) IN
                 /\ acl' = out.acl
                 /\ granted' = granted \ {<<t.a1, t.a2>>}
                 /\ TaskStep(c, NoTask, sched.lock, <<t.op, "execute", out.status, << >> >>)
              /\ UNCHANGED values

\* HashMapSetCommand::execute takes the writer and reserves okay
task_hset_begin ==
    \E c \in ConnIds, okVec \in BOOLEAN :
        LET t == sched.task[c] IN
        /\ t.pc = "checked"
        /\ t.op = "HSET"
        /\ RwLock_write(sched.lock)
        /\ IF okVec
           THEN TaskStep(c, [t EXCEPT !.pc = "hset"], Some(c),
                         <<t.op, "execute", "", << >> >>)
           ELSE TaskStep(c, NoTask, sched.lock, <<t.op, "execute", "Failure", << >> >>)
        /\ UNCHANGED <<values, acl, granted>>

\* one turn of its loop: store.hadd of the next field
task_hset_hadd ==
    \E c \in ConnIds, ok \in BOOLEAN :
        LET t == sched.task[c] IN
        /\ t.pc = "hset"
        /\ t.n < Len(t.a2)
        /\ LET res == hadd(values, t.a1, t.a2[t.n + 1], "a", ok, ok) IN
           /\ values' = res.v
           /\ TaskStep(c, [t EXCEPT !.n = t.n + 1, !.okay = t.okay /\ res.r[1] = "Ok"],
                       sched.lock, <<t.op, "hadd", "", res.r>>)
        /\ UNCHANGED <<acl, granted>>

\* its return drops the writer; the response tells whether every hadd was ok
task_hset_end ==
    \E c \in ConnIds :
        LET t == sched.task[c] IN
        /\ t.pc = "hset"
        /\ t.n = Len(t.a2)
        /\ TaskStep(c, NoTask, NoneOpt,
                    <<t.op, "return", IF t.okay THEN "Success" ELSE "Failure", << >> >>)
        /\ UNCHANGED <<values, acl, granted>>

\* LpushCommand::execute takes the writer and pushes
task_lpush_push ==
    \E c \in ConnIds, ok \in BOOLEAN :
        LET t == sched.task[c]
            res == lpush(values, t.a1, t.a2, ok, ok)
        IN  /\ t.pc = "checked"
            /\ t.op = "LPUSH"
            /\ RwLock_write(sched.lock)
            /\ values' = res.v
            /\ IF res.r[1] = "Ok"
               THEN TaskStep(c, [t EXCEPT !.pc = "lpushed", !.n = llen(res.v, t.a1)],
                             Some(c), <<t.op, "execute", "", res.r>>)
               ELSE TaskStep(c, NoTask, sched.lock,
                             <<t.op, "execute", "OutOfMemory", res.r>>)
            /\ UNCHANGED <<acl, granted>>

\* and answers store.llen read under the same writer
task_lpush_llen ==
    \E c \in ConnIds :
        LET t == sched.task[c] IN
        /\ t.pc = "lpushed"
        /\ TaskStep(c, NoTask, NoneOpt,
                    <<t.op, "return", "Success", <<"Count", llen(values, t.a1)>> >>)
        /\ UNCHANGED <<values, acl, granted>>

NextTasks ==
    \/ task_acl_check \/ task_execute
    \/ task_hset_begin \/ task_hset_hadd \/ task_hset_end
    \/ task_lpush_push \/ task_lpush_llen

SpecTasks == InitTasks /\ [][NextTasks]_vars

C38_ExecuteIsAtomic ==
    [][/\ last'.phase \in {"acl", "execute"}
          => \A c \in ConnIds \ {last'.conn} :
                sched.task[c].pc \notin {"hset", "lpushed"}
       /\ (last'.op = "LPUSH" /\ last'.phase = "return")
          => /\ last'.r = <<"Count", sched.task[last'.conn].n>>
             /\ last'.r = <<"Count", llen(values', sched.task[last'.conn].a1)>>]_vars

\* c1's HSET has written one of its two fields while c2's HLEN, past its
\* ACL check, waits for the lock
C38_Witness ==
    /\ sched.task["c1"].pc = "hset"
    /\ sched.task["c1"].n = 1
    /\ hlen(values, "alice") = 1
    /\ sched.task["c2"].pc = "checked"
    /\ sched.task["c2"].op = "HLEN"

\* C39: as claimed, no request makes a store operation panic, whatever the
\* reachable store (empty lists included, keys bound to any variant) and
\* the arguments, and the framer's decrypt step panics on no decompressed
\* buffer, whatever its length.
C39_NoRequestPanics ==
    /\ last.status # "Panic"
    /\ framer.pc = "read" => framer.result.tag # "Panic"

\* C40: as claimed, an LRANGE whose store call returns a list, the empty
\* list included, is answered Success (with that list as content), and
\* one whose reservation failed is answered with an error status.
C40_LRangeStatusFollowsResult ==
    [][(last'.op = "LRANGE" /\ last'.r[1] # "Panic")
          => /\ last'.r[1] = "OkList" => last'.status = "Success"
             /\ last'.r[1] = "Err" => (~last'.alloc /\ last'.status # "Success")
             /\ ~last'.alloc => (last'.r[1] = "Err" \/ llen(values, last'.key) = 0)]_vars

====
